---- MODULE Spec2Model ----
(***************************************************************************)
(* AntiGravity AutoAccept: the CDP ConnectionManager as a state machine.   *)
(*                                                                         *)
(* Node.js runs one macrotask (a timer callback, a socket event, an HTTP   *)
(* completion, a public call) to completion, followed by every promise     *)
(* continuation (microtask) it made runnable.  One action of this module   *)
(* is one such macrotask: the handler and the continuations of the         *)
(* coroutines it resumes, each run up to its next await on something that  *)
(* is not yet settled.                                                     *)
(*                                                                         *)
(* Handlers are written as operators from manager state (a record m with   *)
(* one field per variable) to manager state, so that a handler can call    *)
(* another one the way the code does; an action commits the resulting      *)
(* record to the variables.                                                *)
(***************************************************************************)
EXTENDS Integers, FiniteSets, Sequences, TLC

\* ---------------------------------------------------------------- bounds
MaxMsgId == 4          \* cap on this.msgId (requests ever sent)
MaxSockets == 2        \* cap on WebSocket objects ever constructed
MaxRuns == 2           \* cap on _handleNewTarget runs awaiting a response
MaxSessionMsgId == 9   \* cap on this.msgId in the single-connection exploration
MaxTimeoutMsgId == 7   \* cap on this.msgId in the exploration of request timeouts
MaxIgnoreMsgId == 7    \* cap on this.msgId in the exploration of ignored targets
MaxMessageMsgId == 6   \* cap on this.msgId in the exploration of incoming messages
MaxElems == 2          \* cap on the elements under document.body
MaxEvals == 3          \* cap on evaluations of the script in one execution context
MaxInstallTicks == 3   \* cap on the 100 ms steps of the clock in the installation exploration
MaxPriorityTicks == 1  \* cap on the 100 ms steps of the clock in the exploration of phrase priority
MaxFilterTicks == 1    \* cap on the 100 ms steps of the clock in the explorations of findButton's filters
MaxCooldownTicks == 2  \* cap on the 2500 ms steps of the clock in the exploration of cooldowns
MaxCloseMsgId == 7     \* cap on this.msgId in the exploration of a channel that closes
MaxPruneTicks == 9     \* cap on the 4000 ms steps of the clock in the exploration of cooldown pruning
MaxPruneElems == 1     \* cap on the elements under document.body in the exploration of cooldown pruning
MaxThrottleTicks == 2  \* cap on the 100 ms steps of the clock in the exploration of the throttle
MaxThrottleElems == 1  \* cap on the elements under document.body in the exploration of the throttle
MaxPollTimers == 4     \* cap on the timers the recursive-setTimeout poller arms
MaxBatches == 3        \* cap on the batches of accept commands the setInterval poller starts
MaxReconnectMsgId == 4 \* cap on this.msgId in the reconnection exploration
MaxReconnectSockets == 3   \* cap on WebSocket objects in the reconnection exploration

\* ------------------------------------------------------- the environment
\* The targets the browser can report, in the order a target list names them.
TargetOrder == <<"page1", "frame1", "worker1">>
Targets == {TargetOrder[i] : i \in DOMAIN TargetOrder}

\* targetInfo.type of each target ("worker1" has a url without 'webview').
TypeOf(t) == IF t = "page1" THEN "page" ELSE IF t = "frame1" THEN "iframe" ELSE "service_worker"


\* ---------------------------------------------------------------- helpers
MapSet(f, k, v) == [x \in (DOMAIN f) \cup {k} |-> IF x = k THEN v ELSE f[x]]
MapDel(f, k) == [x \in (DOMAIN f) \ {k} |-> f[x]]
EmptyMap == [x \in {} |-> 0]

VARIABLES
    isRunning,        \* this.isRunning
    isConnecting,     \* this.isConnecting
    reconnectTimer,   \* this.reconnectTimer is an armed timeout
    heartbeatTimer,   \* this.heartbeatTimer is an armed interval
    hbLeaked,         \* armed heartbeat intervals no field refers to any more
    ws,               \* this.ws: a socket id, 0 for null
    msgId,            \* this.msgId
    pending,          \* this.pending: id -> [promise, timer]
    timers,           \* armed request timeouts, by request id
    sessions,         \* this.sessions: targetId -> sessionId
    ignoredTargets,   \* this.ignoredTargets
    activeCdpPort,    \* this.activeCdpPort
    sock,             \* the WebSocket objects: id -> [state, timeout, promise, disc, left]
    wire,             \* requests the browser has not answered yet: id -> socket
    waiters,          \* unsettled _send promises: id -> continuation of the awaiting coroutine
    connAwait,        \* connect() runs suspended in _findActivePort / _getBrowserWsUrl
    reinjectTimers,   \* armed 500 ms settle delays of _reinjectForSession, by session id
    announced,        \* targets the browser announced with targetCreated and has not destroyed
    live,             \* sessions attached in the browser and not detached: <<target, session, socket>>
    barred,           \* targets put in ignoredTargets with no targetDestroyed handled since
    poller,           \* the host's poller: [isEnabled, isAccepting, pollIntervalId, armed, flight, made, halted, restored, deactivated]
    injected,         \* sessions whose page answered an evaluation of the script with 'observer-installed' or 'already-active'
    dropped,          \* the message _onMessage dropped in the step just taken, "none" after any other step
    dom,              \* the elements under document.body of the page, in document order
    marker,           \* the document holds an element isAgentPanel() looks for
    now,              \* Date.now() of the page
    customTexts,      \* the custom phrases the script was built with
    active,           \* window.__AA_OBSERVER_ACTIVE
    paused,           \* window.__AA_PAUSED
    observers,        \* MutationObservers observing document.body
    debounceTimer,    \* the time the armed 100 ms timer is due, 0 for null
    clickCooldowns,   \* the cooldown map of the script: key -> time of the click
    lastPrune,        \* lastPrune of the script
    evals,            \* evaluations of the script in this execution context so far
    last,             \* what the step just taken did in the page
    installScan,      \* what the initial scan of the installation met and did
    unpruned,         \* the cooldown map as it would be if pruneCooldowns() removed nothing
    page,             \* the bounds of the page exploration: [shapes, elems, ticks, clock, evals, customs]
    lim               \* the bounds of the exploration: [msgs, sockets, runs, once, kinds]

vars == <<isRunning, isConnecting, reconnectTimer, heartbeatTimer, hbLeaked, ws, msgId,
          pending, timers, sessions, ignoredTargets, activeCdpPort, sock, wire, waiters,
          connAwait, reinjectTimers, announced, live, barred, injected, poller, dropped, lim,
          dom, marker, now, customTexts, active, paused, observers, debounceTimer,
          clickCooldowns, lastPrune, evals, last, installScan, unpruned,
          page>>

\* Everything the manager and its sockets hold, without the note of the step.
managerVars == <<isRunning, isConnecting, reconnectTimer, heartbeatTimer, hbLeaked, ws, msgId,
                 pending, timers, sessions, ignoredTargets, activeCdpPort, sock, wire, waiters,
                 connAwait, reinjectTimers, announced, live, barred, injected, poller>>

\* Everything of the page and of the script evaluated in it.
matcherVars == <<dom, marker, now, customTexts, active, paused, observers, debounceTimer,
                 clickCooldowns, lastPrune, evals, last, installScan,
                 unpruned, page>>

\* The poller of the host before the extension is switched on; the manager's
\* and the page's specifications leave it there.
PollerIdle ==
    [isEnabled |-> FALSE, isAccepting |-> FALSE, pollIntervalId |-> 0, armed |-> {},
     flight |-> {}, made |-> 0, halted |-> FALSE, restored |-> FALSE, deactivated |-> FALSE]

\* The current state as a record, and the commit of a record to the variables.
Cur ==
    [isRunning |-> isRunning, isConnecting |-> isConnecting,
     reconnectTimer |-> reconnectTimer, heartbeatTimer |-> heartbeatTimer,
     hbLeaked |-> hbLeaked, ws |-> ws, msgId |-> msgId, pending |-> pending,
     timers |-> timers, sessions |-> sessions, ignoredTargets |-> ignoredTargets,
     activeCdpPort |-> activeCdpPort, sock |-> sock, wire |-> wire,
     waiters |-> waiters, connAwait |-> connAwait, reinjectTimers |-> reinjectTimers,
     announced |-> announced, live |-> live, barred |-> barred, injected |-> injected,
     poller |-> poller,
     dropped |-> "none",
     lim |-> lim]

\* In-flight _handleNewTarget runs of a state: those awaiting a pending request.
RunKinds == {"attach", "enable", "dom", "inject", "detach"}
RunsInFlight(m) == {id \in DOMAIN m.pending : id \in DOMAIN m.waiters /\ m.waiters[id].k \in RunKinds}

WithinBounds(m) == m.msgId <= m.lim.msgs /\ Cardinality(RunsInFlight(m)) <= m.lim.runs

Commit(m) ==
    /\ WithinBounds(m)
    /\ isRunning' = m.isRunning
    /\ isConnecting' = m.isConnecting
    /\ reconnectTimer' = m.reconnectTimer
    /\ heartbeatTimer' = m.heartbeatTimer
    /\ hbLeaked' = m.hbLeaked
    /\ ws' = m.ws
    /\ msgId' = m.msgId
    /\ pending' = m.pending
    /\ timers' = m.timers
    /\ sessions' = m.sessions
    /\ ignoredTargets' = m.ignoredTargets
    /\ activeCdpPort' = m.activeCdpPort
    /\ sock' = m.sock
    /\ wire' = m.wire
    /\ waiters' = m.waiters
    /\ connAwait' = m.connAwait
    /\ reinjectTimers' = m.reinjectTimers
    /\ announced' = m.announced
    /\ live' = m.live
    /\ barred' = m.barred
    /\ injected' = m.injected
    /\ poller' = m.poller
    /\ dropped' = m.dropped
    /\ UNCHANGED matcherVars
    /\ lim' = m.lim

\* -------------------------------------------------------------- the sockets
NewSocket == [state |-> "CONNECTING", timeout |-> TRUE, promise |-> "pending", disc |-> FALSE, left |-> 0]
NoSocket == [state |-> "NONE", timeout |-> FALSE, promise |-> "none", disc |-> FALSE, left |-> 0]
SocketIds == 1..(IF MaxSockets > MaxReconnectSockets THEN MaxSockets ELSE MaxReconnectSockets)

\* ws.close(): starts the closing handshake of a socket that is not closed yet.
WsClose(m, s) ==
    IF m.sock[s].state \in {"CONNECTING", "OPEN"}
    THEN [m EXCEPT !.sock[s].state = "CLOSING"]
    ELSE m

\* this.ws && this.ws.readyState === WebSocket.OPEN
WsIsOpen(m) == m.ws # 0 /\ m.sock[m.ws].state = "OPEN"

\* ------------------------------------------------- coroutines and requests
\* The continuation of a coroutine suspended on a request: its await point k,
\* its targetId and sessionId, and grp, the socket whose initial discovery
\* awaits this run in Promise.allSettled (0 when nobody awaits it).
Cont(k, tgt, sid, grp) == [k |-> k, tgt |-> tgt, sid |-> sid, grp |-> grp]
Rejected == [ok |-> FALSE, val |-> "error", from |-> 0]
Resolved(v, s) == [ok |-> TRUE, val |-> v, from |-> s]

\* _isCandidate(targetInfo)
IsCandidate(t) == TypeOf(t) = "page" \/ TypeOf(t) = "iframe"

\* _scheduleReconnect()
ScheduleReconnect(m) ==
    IF m.reconnectTimer \/ ~m.isRunning THEN m
    ELSE [m EXCEPT !.reconnectTimer = TRUE]

\* connect(), from the settling of `await this._establishConnection(wsUrl)`:
\* the catch block on a rejection, then the finally block.
EstablishSettled(m, s, ok) ==
    IF m.sock[s].promise # "pending" THEN m
    ELSE LET m1 == [m EXCEPT !.sock[s].promise = "settled"]
             m2 == IF ok THEN m1 ELSE ScheduleReconnect(m1)
         IN  [m2 EXCEPT !.isConnecting = FALSE]

\* ws.on('open'), after _initializeTargetDiscovery() returned: start the
\* heartbeat interval (the previous handle is overwritten, not cleared) and resolve.
InitDone(m, s) ==
    LET m1 == IF m.heartbeatTimer
              THEN [m EXCEPT !.hbLeaked = @ + 1]
              ELSE [m EXCEPT !.heartbeatTimer = TRUE]
    IN  EstablishSettled(m1, s, TRUE)

\* ws.on('open'), the catch block: ws.close(); reject(e).
InitFailed(m, s) == EstablishSettled(WsClose(m, s), s, FALSE)

RECURSIVE Send(_, _), Resume(_, _, _), HandleNewTargets(_, _, _, _)

\* A _handleNewTarget run has returned: Promise.allSettled of the initial
\* discovery that awaits it (if any) resolves with the last of its runs.
EndRun(m, grp) ==
    IF grp = 0 THEN m
    ELSE LET m1 == [m EXCEPT !.sock[grp].left = @ - 1]
         IN  IF m1.sock[grp].left = 0 THEN InitDone(m1, grp) ELSE m1

\* _send(method, params, sessionId) by a coroutine that continues at c.
Send(m, c) ==
    IF ~WsIsOpen(m) THEN Resume(m, c, Rejected)
    ELSE LET id == m.msgId + 1
             m1 == [m EXCEPT !.msgId = id,
                             !.timers = @ \cup {id},
                             !.pending = MapSet(@, id, [promise |-> id, timer |-> id]),
                             !.waiters = MapSet(@, id, c),
                             !.wire = MapSet(@, id, m.ws)]
         IN  IF c.k = "init1" THEN [m1 EXCEPT !.sock[m.ws].disc = TRUE, !.announced = {}]
             ELSE IF c.k = "detach" THEN [m1 EXCEPT !.live = {l \in @ : l[2] # c.sid}]
             ELSE m1

\* _handleNewTarget without the ignoredTargets test of line 581.
HandleNewTargetIgnoringNothing(m, t, grp) ==
    IF ~IsCandidate(t) THEN EndRun(m, grp)
    ELSE IF t \in DOMAIN m.sessions THEN EndRun(m, grp)
    ELSE Send(m, Cont("attach", t, 0, grp))

\* _handleNewTarget(targetInfo) up to its first await.
HandleNewTarget(m, t, grp) ==
    IF ~IsCandidate(t) THEN EndRun(m, grp)
    ELSE IF t \in DOMAIN m.sessions THEN EndRun(m, grp)
    ELSE IF t \in m.ignoredTargets THEN EndRun(m, grp)
    ELSE Send(m, Cont("attach", t, 0, grp))

\* candidates.map(t => this._handleNewTarget(t)), from the i-th candidate on.
HandleNewTargets(m, cands, i, grp) ==
    IF i > Len(cands) THEN m
    ELSE HandleNewTargets(HandleNewTarget(m, cands[i], grp), cands, i + 1, grp)

InTargetList(list, t) == t \in list
Candidates(list) == SelectSeq(TargetOrder, LAMBDA t : InTargetList(list, t) /\ IsCandidate(t))

\* _initializeTargetDiscovery() after Target.getTargets answered with list.
InitAttach(m, list, s) ==
    LET cands == Candidates(list)
    IN  IF Len(cands) = 0 THEN InitDone(m, s)
        ELSE HandleNewTargets([m EXCEPT !.sock[s].left = Len(cands)], cands, 1, s)

\* _heartbeat() after Target.getTargets answered with list.
HeartbeatAttach(m, list) ==
    LET cands == SelectSeq(Candidates(list),
                           LAMBDA t : t \notin DOMAIN m.sessions /\ t \notin m.ignoredTargets)
    IN  HandleNewTargets(m, cands, 1, 0)

\* _handleNewTarget after Target.attachToTarget settled.
AfterAttach(m, c, out) ==
    IF ~out.ok \/ out.val = 0 THEN EndRun(m, c.grp)
    ELSE Send([m EXCEPT !.live = @ \cup {<<c.tgt, out.val, out.from>>}],
              Cont("enable", c.tgt, out.val, c.grp))

\* _handleNewTarget after Runtime.enable settled (its rejection is swallowed).
AfterEnable(m, c) ==
    IF TypeOf(c.tgt) = "page" THEN Send(m, Cont("dom", c.tgt, c.sid, c.grp))
    ELSE Send(m, Cont("inject", c.tgt, c.sid, c.grp))

\* _handleNewTarget after the DOM capability probe settled.
AfterDomCheck(m, c, out) ==
    IF ~out.ok THEN EndRun(m, c.grp)
    ELSE IF out.val = "no-dom" THEN Send(m, Cont("detach", c.tgt, c.sid, c.grp))
    ELSE Send(m, Cont("inject", c.tgt, c.sid, c.grp))

\* _handleNewTarget after _injectObserver(sessionId) settled.
AfterInject(m, c, out) ==
    IF ~out.ok THEN EndRun(m, c.grp)
    ELSE IF out.val = "not-agent-panel" THEN Send(m, Cont("detach", c.tgt, c.sid, c.grp))
    ELSE EndRun([m EXCEPT !.sessions = MapSet(@, c.tgt, c.sid)], c.grp)

\* _handleNewTarget after Target.detachFromTarget settled (rejection swallowed).
AfterDetach(m, c) ==
    EndRun([m EXCEPT !.ignoredTargets = @ \cup {c.tgt}, !.barred = @ \cup {c.tgt}], c.grp)

\* The coroutine suspended at c continues with the outcome of its request.
Resume(m, c, out) ==
    CASE c.k = "init1" -> IF out.ok THEN Send(m, Cont("init2", "-", 0, c.grp)) ELSE InitFailed(m, c.grp)
      [] c.k = "init2" -> IF out.ok THEN InitAttach(m, out.val, c.grp) ELSE InitFailed(m, c.grp)
      [] c.k = "attach" -> AfterAttach(m, c, out)
      [] c.k = "enable" -> AfterEnable(m, c)
      [] c.k = "dom" -> AfterDomCheck(m, c, out)
      [] c.k = "inject" -> AfterInject(m, c, out)
      [] c.k = "detach" -> AfterDetach(m, c)
      [] c.k = "hb" -> IF out.ok THEN HeartbeatAttach(m, out.val) ELSE m
      [] OTHER -> m

\* resolve / reject of the promise of request p.  Settling a settled promise
\* does nothing.
SettlePromise(m, p, out) ==
    IF p \in DOMAIN m.waiters
    THEN Resume([m EXCEPT !.waiters = MapDel(@, p)], m.waiters[p], out)
    ELSE m

\* A timer callback that empties this.pending instead of deleting its own entry.
RequestTimeoutClearingAll(m, id) ==
    SettlePromise([m EXCEPT !.pending = EmptyMap, !.timers = {}], id, Rejected)

\* _send: the callback of the 5 s timer of request id.
RequestTimeout(m, id) ==
    SettlePromise([m EXCEPT !.pending = MapDel(@, id), !.timers = @ \ {id}], id, Rejected)

\* A response branch without clearTimeout(handler.timer).
OnResponseKeepingTimer(m, id, out) ==
    IF id \in DOMAIN m.pending
    THEN SettlePromise([m EXCEPT !.pending = MapDel(@, id)], m.pending[id].promise, out)
    ELSE m

\* _onMessage(raw) for a message carrying an id: the branch for responses;
\* a message whose id is not pending has no method and matches no case.
OnResponse(m, id, out) ==
    IF id \in DOMAIN m.pending
    THEN LET handler == m.pending[id]
         IN  SettlePromise([m EXCEPT !.pending = MapDel(@, id), !.timers = @ \ {handler.timer}],
                           handler.promise, out)
    ELSE m

\* _clearPending() without clearTimeout(handler.timer).
ClearPendingKeepingTimers(m) == [m EXCEPT !.pending = EmptyMap]

\* _clearPending()
ClearPending(m) ==
    [m EXCEPT !.timers = @ \ {m.pending[id].timer : id \in DOMAIN m.pending},
              !.pending = EmptyMap]

\* _onClose() without this.sessions.clear().
OnCloseKeepingSessions(m) ==
    LET m1 == ClearPending([m EXCEPT !.ws = 0, !.ignoredTargets = {}])
        m2 == [m1 EXCEPT !.heartbeatTimer = FALSE]
    IN  IF m2.isRunning THEN ScheduleReconnect(m2) ELSE m2

\* _onClose()
OnClose(m) ==
    LET m1 == ClearPending([m EXCEPT !.ws = 0, !.sessions = EmptyMap, !.ignoredTargets = {}])
        m2 == [m1 EXCEPT !.heartbeatTimer = FALSE]
    IN  IF m2.isRunning THEN ScheduleReconnect(m2) ELSE m2

\* _closeWebSocket()
CloseWebSocket(m) == IF m.ws # 0 THEN [WsClose(m, m.ws) EXCEPT !.ws = 0] ELSE m

\* stop()
StopOp(m) ==
    LET m1 == [m EXCEPT !.isRunning = FALSE, !.reconnectTimer = FALSE, !.heartbeatTimer = FALSE]
        m2 == CloseWebSocket(m1)
    IN  ClearPending([m2 EXCEPT !.sessions = EmptyMap, !.ignoredTargets = {}])

\* connect() without the isConnecting half of its first guard.
ConnectOpUnguarded(m) ==
    IF ~m.isRunning THEN m
    ELSE IF WsIsOpen(m) THEN m
    ELSE [m EXCEPT !.isConnecting = TRUE, !.connAwait.findPort = @ + 1]

\* connect() up to its first await (the first port probe of _findActivePort).
ConnectOp(m) ==
    IF ~m.isRunning \/ m.isConnecting THEN m
    ELSE IF WsIsOpen(m) THEN m
    ELSE [m EXCEPT !.isConnecting = TRUE, !.connAwait.findPort = @ + 1]

\* start()
StartOp(m) ==
    IF m.isRunning THEN m
    ELSE ConnectOp([m EXCEPT !.isRunning = TRUE])

\* _scheduleReconnect: the callback of the 3 s timer.
ReconnectFired(m) ==
    LET m1 == [m EXCEPT !.reconnectTimer = FALSE]
    IN  IF m1.isRunning THEN ConnectOp(m1) ELSE m1

\* _handleTargetDestroyed(targetId)
HandleTargetDestroyed(m, t) ==
    LET m1 == IF t \in DOMAIN m.sessions THEN [m EXCEPT !.sessions = MapDel(@, t)] ELSE m
    IN  [m1 EXCEPT !.ignoredTargets = @ \ {t}, !.barred = @ \ {t}]

\* _handleSessionDetached(sessionId)
HandleSessionDetached(m, sid) ==
    IF sid = 0 THEN m
    ELSE LET tids == {t \in DOMAIN m.sessions : m.sessions[t] = sid}
         IN  IF tids = {} THEN m
             ELSE [m EXCEPT !.sessions = MapDel(@, CHOOSE t \in tids : TRUE)]

\* _reinjectForSession(sessionId) up to the 500 ms settle delay.
ReinjectForSession(m, sid) ==
    IF \E t \in DOMAIN m.sessions : m.sessions[t] = sid
    THEN [m EXCEPT !.reinjectTimers = @ \cup {sid}]
    ELSE m

\* The value of a field that a message does not carry.
Undefined == "undefined"

\* _handleNewTarget(targetInfo) for a targetInfo whose fields may be missing:
\* _isCandidate returns false without a url; targetId.substring throws on a
\* missing targetId, which rejects the promise of the async function before
\* anything is sent, and nothing awaits that promise.
HandleTargetInfo(m, info) ==
    IF info.url = Undefined THEN m
    ELSE IF ~(info.type = "page" \/ info.type = "iframe") THEN m
    ELSE IF info.targetId \in DOMAIN m.sessions THEN m
    ELSE IF info.targetId \in m.ignoredTargets THEN m
    ELSE IF info.targetId = Undefined THEN m
    ELSE HandleNewTarget(m, info.targetId, 0)

\* The messages _onMessage cannot use: text that is not JSON, JSON that is not
\* an object, and the four events without the fields their handlers read.
MalformedKinds ==
    {"unparsable", "null", "created:noParams", "created:noTargetInfo",
     "created:noTargetId", "created:noUrl", "destroyed:noParams",
     "destroyed:noTargetId", "detached:noParams", "detached:noSessionId",
     "cleared:noSessionId"}

\* _onMessage(raw) dropping a malformed message, and dropping every pending
\* request with it.
OnMalformedMessageClearingPending(m, kind) ==
    [ClearPending(m) EXCEPT !.dropped = kind]

\* _onMessage(raw) for a malformed message.  JSON.parse, msg.id of null and
\* msg.params.targetInfo / msg.params.targetId of a missing params throw into
\* the catch; destructuring a missing targetInfo rejects the promise of
\* _handleNewTarget; the other events reach their handlers with undefined.
OnMalformedMessage(m, kind) ==
    LET m1 == [m EXCEPT !.dropped = kind]
    IN  CASE kind \in {"unparsable", "null"} -> m1
          [] kind \in {"created:noParams", "created:noTargetInfo", "destroyed:noParams"} -> m1
          [] kind = "created:noTargetId" ->
                HandleTargetInfo(m1, [targetId |-> Undefined, type |-> "page", url |-> "url"])
          [] kind = "created:noUrl" ->
                HandleTargetInfo(m1, [targetId |-> "page1", type |-> "page", url |-> Undefined])
          [] kind = "destroyed:noTargetId" -> HandleTargetDestroyed(m1, Undefined)
          [] kind \in {"detached:noParams", "detached:noSessionId"} -> HandleSessionDetached(m1, 0)
          [] kind = "cleared:noSessionId" -> m1

\* _reinjectForSession detaching the session after the settle delay instead of
\* evaluating the script in it.
ReinjectAfterDelayDetaching(m, sid) ==
    Send([m EXCEPT !.reinjectTimers = @ \ {sid}], Cont("detach", "page1", sid, 0))

\* _reinjectForSession: after the settle delay, _injectObserver(sessionId).
ReinjectAfterDelay(m, sid) ==
    Send([m EXCEPT !.reinjectTimers = @ \ {sid}], Cont("reinj", "-", sid, 0))

\* _heartbeat() up to its first await.
HeartbeatOp(m) == Send(m, Cont("hb", "-", 0, 0))

\* connect() after _findActivePort() returned res ("none" for null).
FindPortDone(m, res) ==
    LET m1 == [m EXCEPT !.connAwait.findPort = @ - 1]
    IN  IF res = "none"
        THEN [ScheduleReconnect(m1) EXCEPT !.isConnecting = FALSE]
        ELSE [m1 EXCEPT !.activeCdpPort = res, !.connAwait.getUrl = @ + 1]

\* connect() after _getBrowserWsUrl(port) settled: res is "url", "null"
\* (no webSocketDebuggerUrl) or "error" (the promise rejected).
FreeSocket(m) == CHOOSE s \in SocketIds : m.sock[s].state = "NONE" /\ \A r \in 1..(s - 1) : m.sock[r].state # "NONE"
GetUrlDone(m, res) ==
    LET m1 == [m EXCEPT !.connAwait.getUrl = @ - 1]
    IN  IF res = "url"
        THEN [m1 EXCEPT !.sock[FreeSocket(m)] = NewSocket]
        ELSE [ScheduleReconnect(m1) EXCEPT !.isConnecting = FALSE]

\* ws.on('open')
OnOpen(m, s) ==
    Send([m EXCEPT !.sock[s].state = "OPEN", !.sock[s].timeout = FALSE, !.ws = s],
         Cont("init1", "-", 0, s))

\* _establishConnection: the callback of the 10 s connection timer.
ConnectionTimeout(m, s) ==
    EstablishSettled(WsClose([m EXCEPT !.sock[s].timeout = FALSE], s), s, FALSE)

\* ws.on('close'): the socket is closed, and with it everything the browser
\* held for it.
OnSocketClose(m, s) ==
    OnClose([m EXCEPT !.sock[s].state = "CLOSED", !.sock[s].timeout = FALSE, !.sock[s].disc = FALSE,
                      !.wire = [id \in {i \in DOMAIN @ : @[i] # s} |-> @[id]],
                      !.live = {l \in @ : l[3] # s}])

\* ------------------------------------------------- the injected script
\* Strings of the page are sequences of one-character strings, so that length,
\* prefix, containment, trimming and lower-casing are computed as JavaScript
\* computes them.
\* String.prototype.toLowerCase, one character and a whole string.
ToLowerCase(s) ==
    LET UpperCase == <<"A", "B", "C", "D", "E", "F", "G", "H", "I", "J", "K", "L", "M", "N", "O", "P", "Q", "R", "S", "T", "U", "V", "W", "X", "Y", "Z">>
        LowerCase == <<"a", "b", "c", "d", "e", "f", "g", "h", "i", "j", "k", "l", "m", "n", "o", "p", "q", "r", "s", "t", "u", "v", "w", "x", "y", "z">>
        LowerChar(c) ==
            IF \E k \in DOMAIN UpperCase : UpperCase[k] = c
            THEN LowerCase[CHOOSE k \in DOMAIN UpperCase : UpperCase[k] = c]
            ELSE c
    IN  [k \in 1..Len(s) |-> LowerChar(s[k])]

\* String.prototype.trim
Trim(s) ==
    LET RECURSIVE TrimStart(_)
        TrimStart(t) == IF t # <<>> /\ Head(t) = " " THEN TrimStart(Tail(t)) ELSE t
        RECURSIVE TrimEnd(_)
        TrimEnd(t) == IF t # <<>> /\ t[Len(t)] = " " THEN TrimEnd(SubSeq(t, 1, Len(t) - 1)) ELSE t
    IN  TrimEnd(TrimStart(s))

\* A test for p anywhere in s, where startsWith tests the start of s only.
FoundAnywhere(s, p) == \E k \in 1..(Len(s) - Len(p) + 1) : SubSeq(s, k, k + Len(p) - 1) = p

\* String.prototype.startsWith, includes and substring(0, n)
StartsWith(s, p) == Len(p) <= Len(s) /\ SubSeq(s, 1, Len(p)) = p
Includes(s, p) == \E k \in 1..(Len(s) - Len(p) + 1) : SubSeq(s, k, k + Len(p) - 1) = p
Substring0(s, n) == IF Len(s) <= n THEN s ELSE SubSeq(s, 1, n)

\* The built-in phrases of allTexts and expandTexts.
BuiltinTexts ==
    <<<<"r", "u", "n">>,
      <<"a", "c", "c", "e", "p", "t">>,
      <<"a", "l", "w", "a", "y", "s", " ", "a", "l", "l", "o", "w">>,
      <<"a", "l", "l", "o", "w", " ", "t", "h", "i", "s", " ", "c", "o", "n", "v", "e", "r", "s", "a", "t", "i", "o", "n">>,
      <<"a", "l", "l", "o", "w">>,
      <<"r", "e", "t", "r", "y">>,
      <<"c", "o", "n", "t", "i", "n", "u", "e">>>>
EXPAND_TEXTS == <<<<"e", "x", "p", "a", "n", "d">>, <<"r", "e", "q", "u", "i", "r", "e", "s", " ", "i", "n", "p", "u", "t">>>>
\* An action catalog that starts with the reveal phrases.
RevealFirstTexts(custom) == EXPAND_TEXTS \o BuiltinTexts \o custom

\* BUTTON_TEXTS of a script built with the custom phrases custom.
BUTTON_TEXTS(custom) == BuiltinTexts \o custom
IsExpandText(text) == text = EXPAND_TEXTS[1] \/ text = EXPAND_TEXTS[2]

COOLDOWN_MS == 5000
EXPAND_COOLDOWN_MS == 8000
PRUNE_INTERVAL_MS == 30000

\* The tree under document.body: the elements in document order, each with
\* the index of its parent element (0 for document.body), its own text (ahead
\* of its children) and the attributes and properties the script reads.  No
\* element of these trees has a shadow root.
Ancestors(tree, i) ==
    LET RECURSIVE Up(_)
        Up(j) == IF j = 0 THEN {} ELSE {j} \cup Up(tree[j].parent)
    IN  Up(tree[i].parent)
Descendants(tree, i) == {j \in DOMAIN tree : i \in Ancestors(tree, j)}

\* Node.textContent: the text of the element and of its descendants in document order.
TextContent(tree, i) ==
    LET RECURSIVE Cat(_)
        Cat(j) == IF j > Len(tree) THEN <<>>
                  ELSE IF j = i \/ j \in Descendants(tree, i) THEN tree[j].text \o Cat(j + 1)
                  ELSE <<>>
    IN  Cat(i)
NormalizedText(tree, i) == ToLowerCase(Trim(TextContent(tree, i)))

\* tag === 'button' || tag.includes('button') || tag.includes('btn')
ButtonTag(el) ==
    LET tag == ToLowerCase(el.tag)
    IN  tag = <<"b", "u", "t", "t", "o", "n">> \/ Includes(tag, <<"b", "u", "t", "t", "o", "n">>) \/ Includes(tag, <<"b", "t", "n">>)

\* The test of closestClickable, and of findButton on the resolved element.
ButtonLike(el) ==
    \/ ButtonTag(el)
    \/ el.role = "button"
    \/ "cursor-pointer" \in el.class
    \/ el.onclick
    \/ el.tabindex = "0"

\* closestClickable(node)
ClosestClickable(tree, i) ==
    LET RECURSIVE Walk(_)
        Walk(j) == IF j = 0 THEN i
                   ELSE IF ButtonLike(tree[j]) THEN j
                   ELSE Walk(tree[j].parent)
    IN  Walk(i)

\* _domPath(el): tag and index among the parent's element children, for the
\* element and up to three ancestors below document.body, outermost first.
DomPath(tree, i) ==
    LET SiblingIndex(k) == Cardinality({j \in 1..(k - 1) : tree[j].parent = tree[k].parent})
        RECURSIVE Parts(_, _)
        Parts(j, n) == IF n = 0 \/ j = 0 THEN <<>>
                       ELSE Parts(tree[j].parent, n - 1) \o << <<tree[j].tag, SiblingIndex(j)>> >>
    IN  Parts(i, 4)

\* The cooldown key of an element: _domPath(el) + ':' + the first 30 characters
\* of its trimmed, lower-cased text.  The pair stands for the joined string.
BtnKey(tree, i) == <<DomPath(tree, i), Substring0(ToLowerCase(Trim(TextContent(tree, i))), 30)>>

\* The allow shortcut of findButton: data-testid or data-action names 'allow'
\* and the node itself has a button tag or role.
AllowShortcut(el) ==
    LET testId == ToLowerCase(IF el.testid # <<>> THEN el.testid ELSE el.action)
    IN  /\ \/ Includes(testId, <<"a", "l", "w", "a", "y", "s", "a", "l", "l", "o", "w">>)
           \/ Includes(testId, <<"a", "l", "w", "a", "y", "s", "-", "a", "l", "l", "o", "w">>)
           \/ Includes(testId, <<"a", "l", "l", "o", "w">>)
        /\ (ButtonTag(el) \/ el.role = "button")

\* isMatch with the bare prefix accepted for a phrase of any length.
IsMatchAnyPrefix(nodeText, text) ==
    \/ nodeText = text
    \/ StartsWith(nodeText, text) /\ Len(nodeText) <= Len(text) * 3
    \/ StartsWith(nodeText, text \o <<" ">>) /\ Len(nodeText) <= Len(text) * 5

\* isMatch of findButton
IsMatch(nodeText, text) ==
    \/ nodeText = text
    \/ Len(text) >= 5 /\ StartsWith(nodeText, text) /\ Len(nodeText) <= Len(text) * 3
    \/ StartsWith(nodeText, text \o <<" ">>) /\ Len(nodeText) <= Len(text) * 5

\* The idempotency guard of findButton on the resolved element.
RejectFilter(tree, c) ==
    \/ tree[c].disabled
    \/ tree[c].ariaDisabled = "true"
    \/ "loading" \in tree[c].class
    \/ \E j \in Descendants(tree, c) : "codicon-loading" \in tree[j].class

\* The cooldown test of findButton.
InCooldown(cooldowns, time, key, text) ==
    LET cooldown == IF IsExpandText(text) THEN EXPAND_COOLDOWN_MS ELSE COOLDOWN_MS
        lastClick == IF key \in DOMAIN cooldowns THEN cooldowns[key] ELSE 0
    IN  lastClick # 0 /\ time - lastClick < cooldown

\* findButton going on to the next node past a match that is disabled or loading.
FindButtonSkippingRejected(tree, cooldowns, time, text) ==
    LET RECURSIVE From(_)
        From(i) ==
            IF i > Len(tree) THEN 0
            ELSE IF AllowShortcut(tree[i]) THEN i
            ELSE LET nodeText == NormalizedText(tree, i)
                     clickable == ClosestClickable(tree, i)
                 IN  IF Len(nodeText) > 50 THEN From(i + 1)
                     ELSE IF ~IsMatch(nodeText, text) THEN From(i + 1)
                     ELSE IF ~(ButtonLike(tree[clickable]) \/ IsExpandText(text)) THEN From(i + 1)
                     ELSE IF RejectFilter(tree, clickable) THEN From(i + 1)
                     ELSE IF InCooldown(cooldowns, time, BtnKey(tree, clickable), text) THEN 0
                     ELSE clickable
    IN  From(1)

\* findButton accepting the resolved element of any phrase as it is.
FindButtonAsIs(tree, cooldowns, time, text) ==
    LET RECURSIVE From(_)
        From(i) ==
            IF i > Len(tree) THEN 0
            ELSE IF AllowShortcut(tree[i]) THEN i
            ELSE LET nodeText == NormalizedText(tree, i)
                     clickable == ClosestClickable(tree, i)
                 IN  IF Len(nodeText) > 50 THEN From(i + 1)
                     ELSE IF ~IsMatch(nodeText, text) THEN From(i + 1)
                     ELSE IF RejectFilter(tree, clickable) THEN 0
                     ELSE IF InCooldown(cooldowns, time, BtnKey(tree, clickable), text) THEN 0
                     ELSE clickable
    IN  From(1)

\* findButton(document.body, text): the index of the element returned, 0 for null.
FindButton(tree, cooldowns, time, text) ==
    LET RECURSIVE From(_)
        From(i) ==
            IF i > Len(tree) THEN 0
            ELSE IF AllowShortcut(tree[i]) THEN i
            ELSE LET nodeText == NormalizedText(tree, i)
                     clickable == ClosestClickable(tree, i)
                 IN  IF Len(nodeText) > 50 THEN From(i + 1)
                     ELSE IF ~IsMatch(nodeText, text) THEN From(i + 1)
                     ELSE IF ~(ButtonLike(tree[clickable]) \/ IsExpandText(text)) THEN From(i + 1)
                     ELSE IF RejectFilter(tree, clickable) THEN 0
                     ELSE IF InCooldown(cooldowns, time, BtnKey(tree, clickable), text) THEN 0
                     ELSE clickable
    IN  From(1)

\* pruneCooldowns() removing every entry when it sweeps.
PruneCooldownsAll(cooldowns, pruned, time) ==
    IF time - pruned < PRUNE_INTERVAL_MS THEN [cooldowns |-> cooldowns, lastPrune |-> pruned]
    ELSE [cooldowns |-> EmptyMap, lastPrune |-> time]

\* pruneCooldowns(): the pair of clickCooldowns and lastPrune it leaves.
PruneCooldowns(cooldowns, pruned, time) ==
    IF time - pruned < PRUNE_INTERVAL_MS THEN [cooldowns |-> cooldowns, lastPrune |-> pruned]
    ELSE LET maxAge == EXPAND_COOLDOWN_MS * 2
             kept == {k \in DOMAIN cooldowns : ~(time - cooldowns[k] > maxAge)}
         IN  [cooldowns |-> [k \in kept |-> cooldowns[k]], lastPrune |-> time]

\* scanAndClick() with Pass 1 running from the last action phrase to the first.
ScanAndClickLastFirst(s, tree, panel, custom, time) ==
    LET swept == PruneCooldowns(s.clickCooldowns, s.lastPrune, time)
        s1 == [s EXCEPT !.clickCooldowns = swept.cooldowns, !.lastPrune = swept.lastPrune]
        buttonTexts == BUTTON_TEXTS(custom)
        Click(btn, text, searched) ==
            [s |-> [s1 EXCEPT !.clickCooldowns = MapSet(@, BtnKey(tree, btn), time)],
             searched |-> searched, clicked |-> btn, phrase |-> text, ret |-> "clicked",
             ledger |-> s1.clickCooldowns]
        RECURSIVE Pass2(_)
        Pass2(e) ==
            IF e > Len(EXPAND_TEXTS)
            THEN [s |-> s1, searched |-> buttonTexts \o EXPAND_TEXTS, clicked |-> 0,
                  phrase |-> <<>>, ret |-> "null", ledger |-> s1.clickCooldowns]
            ELSE LET expBtn == FindButton(tree, s1.clickCooldowns, time, EXPAND_TEXTS[e])
                 IN  IF expBtn # 0
                     THEN Click(expBtn, EXPAND_TEXTS[e], buttonTexts \o SubSeq(EXPAND_TEXTS, 1, e))
                     ELSE Pass2(e + 1)
        RECURSIVE Pass1(_)
        Pass1(t) ==
            IF t < 1 THEN Pass2(1)
            ELSE LET btn == FindButton(tree, s1.clickCooldowns, time, buttonTexts[t])
                 IN  IF btn # 0
                     THEN Click(btn, buttonTexts[t], SubSeq(buttonTexts, t, Len(buttonTexts)))
                     ELSE Pass1(t - 1)
    IN  IF s1.paused \/ ~panel
        THEN [s |-> s1, searched |-> <<>>, clicked |-> 0, phrase |-> <<>>, ret |-> "null",
              ledger |-> s1.clickCooldowns]
        ELSE Pass1(Len(buttonTexts))

\* scanAndClick(): the script state it leaves and the record of what it did.
\* s holds clickCooldowns, lastPrune and paused; the record names the phrases
\* findButton was called with, the element clicked (0 for none), its phrase,
\* the value returned and the cooldown map the searches read.
ScanAndClick(s, tree, panel, custom, time) ==
    LET swept == PruneCooldowns(s.clickCooldowns, s.lastPrune, time)
        s1 == [s EXCEPT !.clickCooldowns = swept.cooldowns, !.lastPrune = swept.lastPrune]
        buttonTexts == BUTTON_TEXTS(custom)
        Click(btn, text, searched) ==
            [s |-> [s1 EXCEPT !.clickCooldowns = MapSet(@, BtnKey(tree, btn), time)],
             searched |-> searched, clicked |-> btn, phrase |-> text, ret |-> "clicked",
             ledger |-> s1.clickCooldowns]
        RECURSIVE Pass2(_)
        Pass2(e) ==
            IF e > Len(EXPAND_TEXTS)
            THEN [s |-> s1, searched |-> buttonTexts \o EXPAND_TEXTS, clicked |-> 0,
                  phrase |-> <<>>, ret |-> "null", ledger |-> s1.clickCooldowns]
            ELSE LET expBtn == FindButton(tree, s1.clickCooldowns, time, EXPAND_TEXTS[e])
                 IN  IF expBtn # 0
                     THEN Click(expBtn, EXPAND_TEXTS[e], buttonTexts \o SubSeq(EXPAND_TEXTS, 1, e))
                     ELSE Pass2(e + 1)
        RECURSIVE Pass1(_)
        Pass1(t) ==
            IF t > Len(buttonTexts) THEN Pass2(1)
            ELSE LET btn == FindButton(tree, s1.clickCooldowns, time, buttonTexts[t])
                 IN  IF btn # 0
                     THEN Click(btn, buttonTexts[t], SubSeq(buttonTexts, 1, t))
                     ELSE Pass1(t + 1)
    IN  IF s1.paused \/ ~panel
        THEN [s |-> s1, searched |-> <<>>, clicked |-> 0, phrase |-> <<>>, ret |-> "null",
              ledger |-> s1.clickCooldowns]
        ELSE Pass1(1)

\* An element with the given tag and own text and no attribute set.
El(tag, text) ==
    [parent |-> 0, tag |-> tag, text |-> text, testid |-> <<>>, action |-> <<>>, role |-> "",
     class |-> {}, disabled |-> FALSE, ariaDisabled |-> "", onclick |-> FALSE, tabindex |-> ""]

\* The trees the page can show: up to n elements of the given shapes, each
\* under document.body, under the element before it or under one of that
\* element's ancestors, which keeps the sequence in document order.
Extend(tree, shapes) ==
    LET ValidParents == IF tree = <<>> THEN {0} ELSE {0, Len(tree)} \cup Ancestors(tree, Len(tree))
    IN  {Append(tree, [sh EXCEPT !.parent = p]) : sh \in shapes, p \in ValidParents}
RECURSIVE Trees(_, _)
Trees(shapes, n) ==
    IF n = 0 THEN {<<>>}
    ELSE LET smaller == Trees(shapes, n - 1)
         IN  smaller \cup UNION {Extend(d, shapes) : d \in {x \in smaller : Len(x) = n - 1}}

\* The page as it stands before any script is evaluated in it.
MatcherIdle ==
    /\ active = FALSE /\ paused = FALSE /\ observers = 0 /\ debounceTimer = 0
    /\ clickCooldowns = EmptyMap /\ lastPrune = 0 /\ evals = 0
    /\ last = [op |-> "none", ret |-> "none", scanned |-> FALSE, searched |-> <<>>, clicked |-> 0,
               phrase |-> <<>>, tree |-> <<>>, panel |-> FALSE, ledger |-> EmptyMap, at |-> 0,
               created |-> FALSE, scheduled |-> FALSE]
    /\ installScan = [done |-> FALSE, panel |-> FALSE, clicked |-> 0]
    /\ unpruned = EmptyMap

\* A manager model without a page: nothing of the script's state exists.
MatcherOff ==
    /\ MatcherIdle
    /\ dom = <<>> /\ marker = FALSE /\ now = 0 /\ customTexts = <<>>
    /\ page = [shapes |-> {}, elems |-> 0, ticks |-> {}, clock |-> 0, evals |-> 0, customs |-> {}]

\* The note of a step that ran no scan.
Step(op, ret, scheduled) ==
    [op |-> op, ret |-> ret, scanned |-> FALSE, searched |-> <<>>, clicked |-> 0, phrase |-> <<>>,
     tree |-> <<>>, panel |-> FALSE, ledger |-> EmptyMap, at |-> 0, created |-> FALSE,
     scheduled |-> scheduled]
\* The note of a step that ran scanAndClick with outcome r on the tree dom.
ScanStep(op, ret, r, created) ==
    [op |-> op, ret |-> ret, scanned |-> TRUE, searched |-> r.searched, clicked |-> r.clicked,
     phrase |-> r.phrase, tree |-> dom, panel |-> marker, ledger |-> r.ledger, at |-> now,
     created |-> created, scheduled |-> FALSE]

\* The body of the script after the idempotency guard: the initial scan, then
\* the MutationObserver on document.body.
Install ==
    LET r == ScanAndClick([clickCooldowns |-> EmptyMap, lastPrune |-> now, paused |-> FALSE],
                          dom, marker, customTexts, now)
    IN  /\ active' = TRUE
        /\ paused' = FALSE
        /\ clickCooldowns' = r.s.clickCooldowns
        /\ lastPrune' = r.s.lastPrune
        /\ debounceTimer' = 0
        /\ observers' = observers + 1
        /\ last' = ScanStep("evaluate", "observer-installed", r, TRUE)
        /\ installScan' = [done |-> TRUE, panel |-> marker, clicked |-> r.clicked]
        /\ unpruned' = r.s.clickCooldowns

\* The script evaluated as if it had no idempotency guard.
EvaluateUnguarded ==
    /\ evals < page.evals
    /\ evals' = evals + 1
    /\ Install
    /\ UNCHANGED <<dom, marker, now, customTexts, page, managerVars, dropped, lim>>

\* Runtime.evaluate of the script in the page's execution context.
Evaluate ==
    /\ evals < page.evals
    /\ evals' = evals + 1
    /\ IF active
       THEN /\ last' = Step("evaluate", "already-active", FALSE)
            /\ UNCHANGED <<active, paused, clickCooldowns, lastPrune, debounceTimer, observers,
                           installScan, unpruned>>
       ELSE Install
    /\ UNCHANGED <<dom, marker, now, customTexts, page, managerVars, dropped, lim>>

\* The callback of the MutationObserver as it would run without its test of
\* debounceTimer: every notification arms a timer.
NotifyRearming ==
    IF observers > 0
    THEN debounceTimer' = now + 100 /\ last' = Step("mutation", "none", TRUE)
    ELSE debounceTimer' = debounceTimer /\ last' = Step("mutation", "none", FALSE)

\* The callback of the MutationObserver: arm the 100 ms timer unless one is armed.
Notify ==
    IF observers > 0 /\ debounceTimer = 0
    THEN debounceTimer' = now + 100 /\ last' = Step("mutation", "none", TRUE)
    ELSE debounceTimer' = debounceTimer /\ last' = Step("mutation", "none", FALSE)

\* The page appends an element or removes its last one (a childList mutation).
Mutation ==
    /\ \E d \in (IF Len(dom) < page.elems THEN Extend(dom, page.shapes) ELSE {})
                    \cup (IF dom # <<>> THEN {SubSeq(dom, 1, Len(dom) - 1)} ELSE {}) : dom' = d
    /\ Notify
    /\ UNCHANGED <<marker, now, customTexts, active, paused, observers, clickCooldowns,
                   lastPrune, evals, page, installScan, unpruned, managerVars, dropped, lim>>

\* A panel marker appears or disappears: with an inserted or removed element
\* (a childList mutation), or with a changed class or attribute (not observed).
MarkerChange ==
    /\ marker' = ~marker
    /\ \/ Notify
       \/ debounceTimer' = debounceTimer /\ last' = Step("marker", "none", FALSE)
    /\ UNCHANGED <<dom, now, customTexts, active, paused, observers, clickCooldowns,
                   lastPrune, evals, page, installScan, unpruned, managerVars, dropped, lim>>

\* The timer's scan as it would run if applicability were decided at install
\* only: the scan does not look for a panel marker.
TimerFireIgnoringMarker ==
    /\ debounceTimer # 0 /\ now >= debounceTimer
    /\ LET r == ScanAndClick([clickCooldowns |-> clickCooldowns, lastPrune |-> lastPrune,
                              paused |-> paused], dom, TRUE, customTexts, now)
       IN  /\ debounceTimer' = 0
           /\ clickCooldowns' = r.s.clickCooldowns
           /\ lastPrune' = r.s.lastPrune
           /\ last' = ScanStep("timer", r.ret, r, FALSE)
           /\ unpruned' = IF r.clicked = 0 THEN unpruned
                          ELSE MapSet(unpruned, BtnKey(dom, r.clicked), now)
    /\ UNCHANGED <<dom, marker, now, customTexts, active, paused, observers, evals, page,
                   installScan, managerVars, dropped, lim>>

\* The timer's scan as it would run if a click were not recorded: the ledger
\* stays as pruning left it.
TimerFireUnrecorded ==
    /\ debounceTimer # 0 /\ now >= debounceTimer
    /\ LET r == ScanAndClick([clickCooldowns |-> clickCooldowns, lastPrune |-> lastPrune,
                              paused |-> paused], dom, marker, customTexts, now)
       IN  /\ debounceTimer' = 0
           /\ clickCooldowns' = r.ledger
           /\ lastPrune' = r.s.lastPrune
           /\ last' = ScanStep("timer", r.ret, r, FALSE)
           /\ unpruned' = IF r.clicked = 0 THEN unpruned
                          ELSE MapSet(unpruned, BtnKey(dom, r.clicked), now)
    /\ UNCHANGED <<dom, marker, now, customTexts, active, paused, observers, evals, page,
                   installScan, managerVars, dropped, lim>>

\* The 100 ms timer of the observer callback fires.
TimerFire ==
    /\ debounceTimer # 0 /\ now >= debounceTimer
    /\ LET r == ScanAndClick([clickCooldowns |-> clickCooldowns, lastPrune |-> lastPrune,
                              paused |-> paused], dom, marker, customTexts, now)
       IN  /\ debounceTimer' = 0
           /\ clickCooldowns' = r.s.clickCooldowns
           /\ lastPrune' = r.s.lastPrune
           /\ last' = ScanStep("timer", r.ret, r, FALSE)
           /\ unpruned' = IF r.clicked = 0 THEN unpruned
                          ELSE MapSet(unpruned, BtnKey(dom, r.clicked), now)
    /\ UNCHANGED <<dom, marker, now, customTexts, active, paused, observers, evals, page,
                   installScan, managerVars, dropped, lim>>

\* Time passes.
Tick ==
    /\ \E d \in page.ticks : now + d <= page.clock /\ now' = now + d
    /\ last' = Step("tick", "none", FALSE)
    /\ UNCHANGED <<dom, marker, customTexts, active, paused, observers, debounceTimer,
                   clickCooldowns, lastPrune, evals, page, installScan, unpruned, managerVars, dropped, lim>>

MatcherNext == Evaluate \/ Mutation \/ MarkerChange \/ TimerFire \/ Tick

\* The steps of a page whose tree stays as it is.
StillNext == Evaluate \/ MarkerChange \/ TimerFire \/ Tick

\* ------------------------------------------------------------------ actions
Fresh ==
    /\ isRunning = FALSE
    /\ isConnecting = FALSE
    /\ reconnectTimer = FALSE
    /\ heartbeatTimer = FALSE
    /\ hbLeaked = 0
    /\ ws = 0
    /\ msgId = 0
    /\ pending = EmptyMap
    /\ timers = {}
    /\ sessions = EmptyMap
    /\ ignoredTargets = {}
    /\ activeCdpPort = "none"
    /\ sock = [s \in SocketIds |-> NoSocket]
    /\ wire = EmptyMap
    /\ waiters = EmptyMap
    /\ connAwait = [findPort |-> 0, getUrl |-> 0]
    /\ reinjectTimers = {}
    /\ announced = {}
    /\ live = {}
    /\ barred = {}
    /\ injected = {}
    /\ poller = PollerIdle
    /\ dropped = "none"

\* The state after construction, explored up to MaxMsgId requests on up to
\* MaxSockets sockets.
Init ==
    /\ Fresh
    /\ MatcherOff
    /\ lim = [msgs |-> MaxMsgId, sockets |-> MaxSockets, runs |-> MaxRuns, once |-> FALSE,
              kinds |-> {"unparsable"}]

\* The state after construction, explored on a single connection that the host
\* never stops, up to MaxSessionMsgId requests.
SessionInit ==
    /\ Fresh
    /\ MatcherOff
    /\ lim = [msgs |-> MaxSessionMsgId, sockets |-> 1, runs |-> MaxRuns, once |-> TRUE,
              kinds |-> {"unparsable"}]

\* The host calls start().
Start == \E m \in {StartOp(Cur)} : Commit(m)

\* The host calls stop().
Stop == \E m \in {StopOp(Cur)} : Commit(m)

\* The reconnect timer fires.
ReconnectFire ==
    /\ reconnectTimer
    /\ Commit(ReconnectFired(Cur))

\* The port probes of a connect() run complete.
PortProbed ==
    /\ connAwait.findPort > 0
    /\ \E res \in {"port", "none"} : Commit(FindPortDone(Cur, res))

\* The HTTP request for the channel URL of a connect() run completes.
UrlFetched ==
    /\ connAwait.getUrl > 0
    /\ \E res \in {"url", "null", "error"} :
          /\ res = "url" => \E s \in 1..lim.sockets : sock[s].state = "NONE"
          /\ Commit(GetUrlDone(Cur, res))

\* The handshake of a socket succeeds.
SocketOpen ==
    \E s \in SocketIds :
        /\ sock[s].state = "CONNECTING"
        /\ Commit(OnOpen(Cur, s))

\* The handshake of a socket fails: 'error', then 'close'.
SocketError ==
    \E s \in SocketIds :
        /\ sock[s].state = "CONNECTING"
        /\ Commit(OnSocketClose(Cur, s))

\* The 10 s connection timer of a socket fires.
ConnectTimeout ==
    \E s \in SocketIds :
        /\ sock[s].timeout
        /\ Commit(ConnectionTimeout(Cur, s))

\* The browser (or the network) starts closing an open socket.
PeerClose ==
    \E s \in SocketIds :
        /\ sock[s].state = "OPEN"
        /\ Commit([Cur EXCEPT !.sock[s].state = "CLOSING"])

\* A closing socket emits 'close'.
SocketClosed ==
    \E s \in SocketIds :
        /\ sock[s].state = "CLOSING"
        /\ Commit(OnSocketClose(Cur, s))

\* What the browser can answer to the request a coroutine awaits at k.
Answers(k, id) ==
    CASE k \in {"init2", "hb"} -> SUBSET Targets
      [] k = "attach" -> {id, 0}
      [] k = "dom" -> {"has-dom", "no-dom"}
      [] k \in {"inject", "reinj"} -> {"observer-installed", "already-active", "not-agent-panel", "undefined"}
      [] OTHER -> {"ok"}

CanDeliver(s) == sock[s].state \in {"OPEN", "CLOSING"}

\* A socket delivers the response to a request.
Response ==
    \E id \in DOMAIN wire :
        /\ CanDeliver(wire[id])
        /\ \E v \in (IF id \in DOMAIN pending THEN Answers(waiters[id].k, id) ELSE {"ok"}) :
              LET installed == /\ id \in DOMAIN pending
                               /\ waiters[id].k \in {"inject", "reinj"}
                               /\ v \in {"observer-installed", "already-active"}
                  m == [Cur EXCEPT !.wire = MapDel(@, id),
                                   !.injected = IF installed THEN @ \cup {waiters[id].sid} ELSE @]
              IN  Commit(OnResponse(m, id, Resolved(v, wire[id])))

\* The 5 s timer of a request fires.
RequestTimedOut ==
    \E id \in timers : Commit(RequestTimeout(Cur, id))

\* A socket delivers Target.targetCreated.  With lim.once the browser announces
\* a target once until it destroys it; otherwise it may send the event at any time.
TargetCreated ==
    \E s \in SocketIds, t \in Targets :
        /\ CanDeliver(s) /\ sock[s].disc
        /\ lim.once => t \notin announced
        /\ Commit(HandleNewTarget([Cur EXCEPT !.announced = IF lim.once THEN @ \cup {t} ELSE @], t, 0))

\* A socket delivers Target.targetDestroyed.
TargetDestroyed ==
    \E s \in SocketIds, t \in Targets :
        /\ CanDeliver(s) /\ sock[s].disc
        /\ lim.once => t \in announced
        /\ Commit(HandleTargetDestroyed([Cur EXCEPT !.announced = @ \ {t},
                                                    !.live = {l \in @ : ~(l[1] = t /\ l[3] = s)}], t))

SessionsOn(s) == {l[2] : l \in {x \in live : x[3] = s}}

\* A socket delivers Target.detachedFromTarget.
SessionDetached ==
    \E s \in SocketIds :
        /\ CanDeliver(s)
        /\ \E sid \in SessionsOn(s) :
              Commit(HandleSessionDetached([Cur EXCEPT !.live = {l \in @ : l[2] # sid}], sid))

\* A socket delivers Runtime.executionContextsCleared of a session.
ContextsCleared ==
    \E s \in SocketIds :
        /\ CanDeliver(s)
        /\ \E sid \in SessionsOn(s) :
              /\ sid \notin reinjectTimers
              /\ Commit(ReinjectForSession(Cur, sid))

\* A socket delivers a message that cannot be parsed, or an event that lacks
\* fields its handler reads.
Malformed ==
    \E s \in SocketIds, kind \in lim.kinds :
        /\ CanDeliver(s)
        /\ Commit(OnMalformedMessage(Cur, kind))

\* The settle delay of a re-injection elapses.
ReinjectFire ==
    \E sid \in reinjectTimers : Commit(ReinjectAfterDelay(Cur, sid))

\* A heartbeat interval fires.
Heartbeat ==
    /\ heartbeatTimer \/ hbLeaked > 0
    /\ Commit(HeartbeatOp(Cur))

Next ==
    \/ Start
    \/ Stop
    \/ ReconnectFire
    \/ PortProbed
    \/ UrlFetched
    \/ SocketOpen
    \/ SocketError
    \/ ConnectTimeout
    \/ PeerClose
    \/ SocketClosed
    \/ Response
    \/ RequestTimedOut
    \/ TargetCreated
    \/ TargetDestroyed
    \/ SessionDetached
    \/ ContextsCleared
    \/ Malformed
    \/ ReinjectFire
    \/ Heartbeat

Spec == Init /\ [][Next]_vars

\* One connection and the sessions attached over it, every request answered
\* in time: no stop(), no loss of the channel.
SessionNext ==
    \/ Start
    \/ PortProbed
    \/ UrlFetched
    \/ SocketOpen
    \/ Response
    \/ TargetCreated

SessionSpec == SessionInit /\ [][SessionNext]_vars

\* One connection whose requests can time out, up to MaxTimeoutMsgId requests.
TimeoutInit ==
    /\ Fresh
    /\ MatcherOff
    /\ lim = [msgs |-> MaxTimeoutMsgId, sockets |-> 1, runs |-> MaxRuns, once |-> TRUE,
              kinds |-> {"unparsable"}]

TimeoutNext ==
    \/ Start
    \/ PortProbed
    \/ UrlFetched
    \/ SocketOpen
    \/ Response
    \/ RequestTimedOut
    \/ TargetCreated

TimeoutSpec == TimeoutInit /\ [][TimeoutNext]_vars

\* The state in which start() has connected socket 1 and the initial discovery
\* found no candidate: requests 1 and 2 answered, the heartbeat armed.
Discovered ==
    /\ isRunning = TRUE
    /\ isConnecting = FALSE
    /\ reconnectTimer = FALSE
    /\ heartbeatTimer = TRUE
    /\ hbLeaked = 0
    /\ ws = 1
    /\ msgId = 2
    /\ pending = EmptyMap
    /\ timers = {}
    /\ sessions = EmptyMap
    /\ ignoredTargets = {}
    /\ activeCdpPort = "port"
    /\ sock = [s \in SocketIds |->
                  IF s = 1 THEN [NewSocket EXCEPT !.state = "OPEN", !.timeout = FALSE,
                                                  !.promise = "settled", !.disc = TRUE]
                  ELSE NoSocket]
    /\ wire = EmptyMap
    /\ waiters = EmptyMap
    /\ connAwait = [findPort |-> 0, getUrl |-> 0]
    /\ reinjectTimers = {}
    /\ announced = {}
    /\ live = {}
    /\ barred = {}
    /\ injected = {}
    /\ poller = PollerIdle
    /\ dropped = "none"

\* Targets that get ignored, destroyed and announced again, over a channel that
\* closes and reconnects and that the host finally stops, from the state
\* Discovered on, up to MaxIgnoreMsgId requests.
IgnoreInit ==
    /\ Discovered
    /\ MatcherOff
    /\ lim = [msgs |-> MaxIgnoreMsgId, sockets |-> MaxSockets, runs |-> MaxRuns, once |-> TRUE,
              kinds |-> {"unparsable"}]

IgnoreNext ==
    \/ Stop
    \/ ReconnectFire
    \/ PortProbed
    \/ UrlFetched
    \/ SocketOpen
    \/ PeerClose
    \/ SocketClosed
    \/ Response
    \/ TargetCreated
    \/ TargetDestroyed

IgnoreSpec == IgnoreInit /\ [][IgnoreNext]_vars

\* The messages of one connected socket, well-formed and malformed.
MessageInit ==
    /\ Discovered
    /\ MatcherOff
    /\ lim = [msgs |-> MaxMessageMsgId, sockets |-> 1, runs |-> MaxRuns, once |-> TRUE,
              kinds |-> MalformedKinds]

MessageNext ==
    \/ Response
    \/ TargetCreated
    \/ TargetDestroyed
    \/ SessionDetached
    \/ ContextsCleared
    \/ ReinjectFire
    \/ Malformed

MessageSpec == MessageInit /\ [][MessageNext]_vars

\* The life cycle of the channel alone: start, stop, connect, loss, reconnect.
ReconnectInit ==
    /\ Fresh
    /\ MatcherOff
    /\ lim = [msgs |-> MaxReconnectMsgId, sockets |-> MaxReconnectSockets, runs |-> MaxRuns, once |-> FALSE,
              kinds |-> {"unparsable"}]

ReconnectNext ==
    \/ Start
    \/ Stop
    \/ ReconnectFire
    \/ PortProbed
    \/ UrlFetched
    \/ SocketOpen
    \/ SocketError
    \/ ConnectTimeout
    \/ PeerClose
    \/ SocketClosed
    \/ Response
    \/ RequestTimedOut

\* Node.js runs every armed timer and every completed I/O: timers fire, HTTP
\* requests complete (they carry an 800 ms timeout), a handshake ends one way
\* or the other, and a closing socket emits 'close'.  The host and the browser
\* owe nothing.
ReconnectSpec ==
    /\ ReconnectInit /\ [][ReconnectNext]_vars
    /\ WF_vars(ReconnectFire)
    /\ WF_vars(PortProbed)
    /\ WF_vars(UrlFetched)
    /\ WF_vars(ConnectTimeout)
    /\ WF_vars(SocketClosed)
    /\ WF_vars(RequestTimedOut)

\* A channel that is lost or stopped: from the state Discovered on, one socket
\* that the browser closes or the host stops while targets are attached and
\* requests are pending, up to MaxCloseMsgId requests.
CloseInit ==
    /\ Discovered
    /\ MatcherOff
    /\ lim = [msgs |-> MaxCloseMsgId, sockets |-> 1, runs |-> MaxRuns, once |-> TRUE,
              kinds |-> {"unparsable"}]

CloseNext ==
    \/ Stop
    \/ PeerClose
    \/ SocketClosed
    \/ Response
    \/ RequestTimedOut
    \/ TargetCreated

CloseSpec == CloseInit /\ [][CloseNext]_vars

\* Heartbeats: from the same state and within the same number of requests, a
\* channel that stays open while targets are announced, attached or ignored,
\* and heartbeats enumerate the targets.
HeartbeatNext ==
    \/ Response
    \/ TargetCreated
    \/ Heartbeat

HeartbeatSpec == CloseInit /\ [][HeartbeatNext]_vars

\* A manager that is never started, beside a page under exploration.
ManagerOff ==
    /\ Fresh
    /\ lim = [msgs |-> 0, sockets |-> 0, runs |-> 0, once |-> TRUE, kinds |-> {}]

\* The pages of an exploration: any tree within the bounds, with or without a
\* panel marker, and a script built with one of the custom phrase lists.
PageInit(bounds) ==
    /\ page = bounds
    /\ dom \in Trees(bounds.shapes, bounds.elems)
    /\ marker \in BOOLEAN
    /\ customTexts \in bounds.customs
    /\ now = 1000
    /\ MatcherIdle
    /\ ManagerOff

\* <button>text</button>
Button(text) == El(<<"B", "U", "T", "T", "O", "N">>, text)
RunButton == Button(<<"R", "u", "n">>)

\* Installation: the script evaluated up to MaxEvals times in a page that shows
\* Run buttons.
InstallInit ==
    PageInit([shapes |-> {RunButton}, elems |-> MaxElems, ticks |-> {100},
              clock |-> 1000 + MaxInstallTicks * 100, evals |-> MaxEvals, customs |-> {<<>>}])

InstallSpec == InstallInit /\ [][MatcherNext]_vars

\* The throttle: a page whose tree changes, with the page's scheduling: time
\* passes while the clock is within its bound, and a timer that is due fires
\* (weak fairness of TimerFire, written with the condition that enables it).
ThrottleInit ==
    PageInit([shapes |-> {RunButton}, elems |-> MaxThrottleElems, ticks |-> {100},
              clock |-> 1000 + MaxThrottleTicks * 100, evals |-> 1, customs |-> {<<>>}])

ThrottleSpec ==
    /\ ThrottleInit /\ [][MatcherNext]_vars
    /\ WF_vars(Tick)
    /\ ([]<>(debounceTimer = 0 \/ now < debounceTimer) \/ []<><<TimerFire>>_vars)

AcceptButton == Button(<<"A", "c", "c", "e", "p", "t">>)
\* A Run button that is loading.
LoadingRunButton == [RunButton EXCEPT !.class = {"loading"}]

\* Phrase priority: one installation and the scans after it, in pages whose
\* tree stays as it is, scanned by a script built with the custom phrase
\* 'proceed'. The pages show buttons for action phrases, for the custom phrase
\* and for a reveal phrase, a Run button that is loading and an Always Allow
\* button with a test identifier.
PriorityInit ==
    LET ProceedButton == Button(<<"P", "r", "o", "c", "e", "e", "d">>)
        ExpandButton == Button(<<"E", "x", "p", "a", "n", "d">>)
        AllowTestIdButton == [Button(<<"A", "l", "w", "a", "y", "s", " ", "A", "l", "l", "o", "w">>) EXCEPT !.testid = <<"a", "l", "w", "a", "y", "s", "-", "a", "l", "l", "o", "w">>]
    IN  PageInit([shapes |-> {RunButton, AcceptButton, ProceedButton, ExpandButton,
                              LoadingRunButton, AllowTestIdButton},
                  elems |-> MaxElems, ticks |-> {100}, clock |-> 1000 + MaxPriorityTicks * 100,
                  evals |-> 1, customs |-> {<<<<"p", "r", "o", "c", "e", "e", "d">>>>}])

PrioritySpec == PriorityInit /\ [][StillNext]_vars

\* A text of 54 characters: 'Run ' and fifty x.
LongText == <<"R", "u", "n", " ">> \o [k \in 1..50 |-> "x"]

\* The length filter: pages that show long texts, alone and around a short
\* one: a Run button with the long text; a button with the long text and a
\* test identifier naming 'allow'; a clickable card with the long text, and the
\* <span>Run</span> that stands inside such a card.
LengthInit ==
    LET LongRunButton == Button(LongText)
        LongAllowTestIdButton == [Button(LongText) EXCEPT !.testid = <<"a", "l", "l", "o", "w", "-", "b", "u", "t", "t", "o", "n">>]
        Card == [El(<<"D", "I", "V">>, LongText) EXCEPT !.role = "button"]
        RunSpan == El(<<"S", "P", "A", "N">>, <<"R", "u", "n">>)
    IN  PageInit([shapes |-> {LongRunButton, LongAllowTestIdButton, Card, RunSpan},
                  elems |-> MaxElems, ticks |-> {100}, clock |-> 1000 + MaxFilterTicks * 100,
                  evals |-> 1, customs |-> {<<>>}])

LengthSpec == LengthInit /\ [][StillNext]_vars

\* The reject filter: pages that show usable and unusable buttons: Run buttons
\* that are disabled or aria-disabled, the spinner that makes the element
\* around it loading, and a disabled button with a test identifier naming
\* 'allow'.
RejectInit ==
    LET DisabledRunButton == [RunButton EXCEPT !.disabled = TRUE]
        AriaDisabledRunButton == [RunButton EXCEPT !.ariaDisabled = "true"]
        Spinner == [El(<<"S", "P", "A", "N">>, <<>>) EXCEPT !.class = {"codicon-loading"}]
        DisabledAllowTestIdButton ==
            [Button(<<"A", "l", "w", "a", "y", "s", " ", "A", "l", "l", "o", "w">>) EXCEPT !.testid = <<"a", "l", "w", "a", "y", "s", "-", "a", "l", "l", "o", "w">>, !.disabled = TRUE]
    IN  PageInit([shapes |-> {RunButton, DisabledRunButton, AriaDisabledRunButton,
                              LoadingRunButton, Spinner, DisabledAllowTestIdButton},
                  elems |-> MaxElems, ticks |-> {100}, clock |-> 1000 + MaxFilterTicks * 100,
                  evals |-> 1, customs |-> {<<>>}])

RejectSpec == RejectInit /\ [][StillNext]_vars

RunAltButton == Button(<<"R", "u", "n", " ", "A", "l", "t", "+", "D">>)

\* Short phrases: pages scanned by a script built with the custom phrase 'ok'
\* that show buttons whose text is near the phrases 'run' and 'ok': a part of
\* the phrase, the phrase with letters after it, the phrase with words after
\* it (within and beyond five times its length).
PrefixInit ==
    LET RuButton == Button(<<"r", "u">>)
        RunnerButton == Button(<<"R", "u", "n", "n", "e", "r">>)
        RunInTerminalButton == Button(<<"R", "u", "n", " ", "i", "n", " ", "t", "e", "r", "m", "i", "n", "a", "l">>)
        OkGoButton == Button(<<"O", "K", " ", "g", "o">>)
    IN  PageInit([shapes |-> {RunButton, RuButton, RunnerButton, RunAltButton,
                              RunInTerminalButton, OkGoButton},
                  elems |-> MaxElems, ticks |-> {100}, clock |-> 1000 + MaxFilterTicks * 100,
                  evals |-> 1, customs |-> {<<<<"o", "k">>>>}])

PrefixSpec == PrefixInit /\ [][StillNext]_vars

\* Clickable containers: <div> nodes with the text 'Run' or 'Expand' and
\* nothing button-like of their own, and <div> boxes that are button-like by
\* role, by the cursor-pointer class, by a click handler or by tabindex 0,
\* nested in every order.  Two of the boxes are empty and two show a '+' ahead
\* of what they hold, so that their own text passes no test.
ClickableInit ==
    LET Div(text) == El(<<"D", "I", "V">>, text)
        RunText == Div(<<"R", "u", "n">>)
        ExpandText == Div(<<"E", "x", "p", "a", "n", "d">>)
        RoleBox == [Div(<<"+">>) EXCEPT !.role = "button"]
        PointerBox == [Div(<<"+">>) EXCEPT !.class = {"cursor-pointer"}]
        HandlerBox == [Div(<<>>) EXCEPT !.onclick = TRUE]
        TabBox == [Div(<<>>) EXCEPT !.tabindex = "0"]
    IN  PageInit([shapes |-> {RunText, ExpandText, RoleBox, PointerBox, HandlerBox, TabBox},
                  elems |-> MaxElems, ticks |-> {100}, clock |-> 1000 + MaxFilterTicks * 100,
                  evals |-> 1, customs |-> {<<>>}])

ClickableSpec == ClickableInit /\ [][StillNext]_vars

\* The allow shortcut: buttons named by data-testid, by data-action or by a
\* data-action behind a data-testid that names something else, a <div> with
\* the test id of a button, and a Run button found by its text.
ShortcutInit ==
    LET TestIdButton == [Button(<<"W", "h", "a", "t", "e", "v", "e", "r">>) EXCEPT !.testid = <<"a", "l", "w", "a", "y", "s", "a", "l", "l", "o", "w">>]
        ActionButton == [Button(<<"S", "o", "m", "e", " ", "L", "a", "b", "e", "l">>) EXCEPT !.action = <<"a", "l", "w", "a", "y", "s", "-", "a", "l", "l", "o", "w">>]
        BothButton == [Button(<<"G", "r", "a", "n", "t">>) EXCEPT !.testid = <<"p", "e", "r", "m">>, !.action = <<"a", "l", "w", "a", "y", "s", "-", "a", "l", "l", "o", "w">>]
        TestIdDiv == [El(<<"D", "I", "V">>, <<"s", "t", "u", "f", "f">>) EXCEPT !.testid = <<"a", "l", "w", "a", "y", "s", "a", "l", "l", "o", "w">>]
    IN  PageInit([shapes |-> {TestIdButton, ActionButton, BothButton, TestIdDiv, RunButton},
                  elems |-> MaxElems, ticks |-> {100}, clock |-> 1000 + MaxFilterTicks * 100,
                  evals |-> 1, customs |-> {<<>>}])

ShortcutSpec == ShortcutInit /\ [][StillNext]_vars

\* The first match: pages that show a Run button, a disabled one, a <div>
\* 'Run' that is aria-disabled and not button-like, an Accept button, and a
\* button with a test identifier naming 'allow'.
FirstMatchInit ==
    LET DisabledRunButton == [RunButton EXCEPT !.disabled = TRUE]
        AriaDisabledRunText == [El(<<"D", "I", "V">>, <<"R", "u", "n">>) EXCEPT !.ariaDisabled = "true"]
        AllowTestIdButton == [Button(<<"W", "h", "a", "t", "e", "v", "e", "r">>) EXCEPT !.testid = <<"a", "l", "w", "a", "y", "s", "a", "l", "l", "o", "w">>]
    IN  PageInit([shapes |-> {RunButton, DisabledRunButton, AriaDisabledRunText, AcceptButton,
                              AllowTestIdButton},
                  elems |-> MaxElems, ticks |-> {100}, clock |-> 1000 + MaxFilterTicks * 100,
                  evals |-> 1, customs |-> {<<>>}])

FirstMatchSpec == FirstMatchInit /\ [][StillNext]_vars

\* Pruning: Accept buttons and Expand buttons in a tree that stays as it is,
\* scanned at installation and by timer scans for as long as it takes the
\* first sweep of the cooldown map to come due and pass (the clock moves in
\* steps of 4000 ms).
PruneInit ==
    PageInit([shapes |-> {AcceptButton, Button(<<"E", "x", "p", "a", "n", "d">>)},
              elems |-> MaxPruneElems, ticks |-> {4000},
              clock |-> 1000 + MaxPruneTicks * 4000, evals |-> 1, customs |-> {<<>>}])

PruneSpec == PruneInit /\ [][StillNext]_vars

\* Cooldowns: Accept buttons, and <div> blocks that can hold one, at different
\* places of a tree that stays as it is, scanned at installation and by timer
\* scans within the first click's cooldown and after it (the clock moves in
\* steps of 2500 ms).
CooldownInit ==
    LET Block == El(<<"D", "I", "V">>, <<>>)
    IN  PageInit([shapes |-> {AcceptButton, Block}, elems |-> MaxElems, ticks |-> {2500},
                  clock |-> 1000 + MaxCooldownTicks * 2500, evals |-> 1, customs |-> {<<>>}])

CooldownSpec == CooldownInit /\ [][StillNext]_vars

\* The text test: pages that show buttons whose text holds a phrase at its
\* start or further on: the banner '1 Step Requires Input' and the plain
\* 'Requires Input', 'Continue generation' (a phrase of 5 characters or more
\* with a word after it) and 'Retrying the call' (more than 3 times the phrase
\* 'retry', no space after it).
RevealInit ==
    LET StepsBanner == Button(<<"1", " ", "S", "t", "e", "p", " ", "R", "e", "q", "u", "i", "r", "e", "s", " ", "I", "n", "p", "u", "t">>)
        RequiresInputButton == Button(<<"R", "e", "q", "u", "i", "r", "e", "s", " ", "I", "n", "p", "u", "t">>)
        ContinueGenerationButton == Button(<<"C", "o", "n", "t", "i", "n", "u", "e", " ", "g", "e", "n", "e", "r", "a", "t", "i", "o", "n">>)
        RetryingButton == Button(<<"R", "e", "t", "r", "y", "i", "n", "g", " ", "t", "h", "e", " ", "c", "a", "l", "l">>)
    IN  PageInit([shapes |-> {StepsBanner, RequiresInputButton, ContinueGenerationButton,
                              RetryingButton},
                  elems |-> MaxElems, ticks |-> {100}, clock |-> 1000 + MaxFilterTicks * 100,
                  evals |-> 1, customs |-> {<<>>}])

RevealSpec == RevealInit /\ [][StillNext]_vars

TypeOK ==
    /\ isRunning \in BOOLEAN /\ isConnecting \in BOOLEAN
    /\ reconnectTimer \in BOOLEAN /\ heartbeatTimer \in BOOLEAN
    /\ ws \in {0} \cup SocketIds /\ msgId \in 0..lim.msgs
    /\ DOMAIN pending \subseteq 1..msgId /\ timers \subseteq 1..msgId
    /\ DOMAIN sessions \subseteq Targets /\ ignoredTargets \subseteq Targets

\* ------------------------------------------------- the poller of the host
\* The extension host after activate(): the manager constructed and not
\* started, the poller idle, no page.
HostInit ==
    /\ ManagerOff
    /\ MatcherOff

\* --- the recursive-setTimeout poller.  A timer is known by the number of its
\* creation; a pollCycle in flight carries the number of the timer that
\* started it; 'halted' notes that stopPolling() ran and that no startPolling()
\* has armed a timer since.
\* startPolling()
StartPolling(m) ==
    IF m.poller.pollIntervalId # 0 THEN m
    ELSE LET t == m.poller.made + 1
         IN  StartOp([m EXCEPT !.poller.pollIntervalId = t, !.poller.armed = @ \cup {t},
                               !.poller.made = t, !.poller.halted = FALSE])

\* stopPolling(): clearTimeout of a timer that has fired clears nothing.
StopPolling(m) ==
    LET m1 == IF m.poller.pollIntervalId # 0
              THEN [m EXCEPT !.poller.armed = @ \ {m.poller.pollIntervalId},
                             !.poller.pollIntervalId = 0]
              ELSE m
    IN  StopOp([m1 EXCEPT !.poller.halted = TRUE])

\* The command autoAcceptV2.toggle.
Toggle ==
    /\ ~poller.deactivated
    /\ LET m1 == [Cur EXCEPT !.poller.isEnabled = ~@]
           m2 == IF m1.poller.isEnabled THEN StartPolling(m1) ELSE StopPolling(m1)
       IN  m2.poller.made <= MaxPollTimers /\ Commit(m2)

\* activate(): the saved state was 'enabled' and the debug port answered.
Restore ==
    /\ ~poller.restored /\ ~poller.deactivated
    /\ LET m1 == StartPolling([Cur EXCEPT !.poller.isEnabled = TRUE, !.poller.restored = TRUE])
       IN  m1.poller.made <= MaxPollTimers /\ Commit(m1)

\* deactivate()
Deactivate ==
    /\ ~poller.deactivated
    /\ Commit(StopPolling([Cur EXCEPT !.poller.deactivated = TRUE]))

\* A poll timer fires: pollCycle() up to its await.
PollCycle ==
    \E t \in poller.armed :
        LET m1 == [Cur EXCEPT !.poller.armed = @ \ {t}]
        IN  Commit(IF ~m1.poller.isEnabled THEN m1
                   ELSE [m1 EXCEPT !.poller.flight = @ \cup {t}])

\* The race of the commands with the 3 s timeout settles: pollCycle() from its
\* await to its end.
PollCycleResumes ==
    \E c \in poller.flight :
        LET m1 == [Cur EXCEPT !.poller.flight = @ \ {c}]
            t == m1.poller.made + 1
            m2 == IF m1.poller.isEnabled
                  THEN [m1 EXCEPT !.poller.pollIntervalId = t, !.poller.armed = @ \cup {t},
                                  !.poller.made = t]
                  ELSE m1
        IN  m2.poller.made <= MaxPollTimers /\ Commit(m2)

PollNext ==
    \/ Toggle
    \/ Restore
    \/ Deactivate
    \/ PollCycle
    \/ PollCycleResumes

PollSpec == HostInit /\ [][PollNext]_vars

\* --- the setInterval poller.  A batch of accept commands is known by the
\* number of its start; 'armed' holds the batches whose safety timer is armed,
\* 'flight' the batches whose commands have not all settled.
\* startPolling()
StartIntervalPolling(m) ==
    IF m.poller.pollIntervalId # 0 THEN m
    ELSE StartOp([m EXCEPT !.poller.pollIntervalId = 1, !.poller.halted = FALSE])

\* stopPolling()
StopIntervalPolling(m) ==
    LET m1 == StopOp([m EXCEPT !.poller.pollIntervalId = 0])
    IN  [m1 EXCEPT !.poller.isAccepting = FALSE, !.poller.halted = TRUE]

\* The command autoAcceptV2.toggle.
IntervalToggle ==
    /\ ~poller.deactivated
    /\ LET m1 == [Cur EXCEPT !.poller.isEnabled = ~@]
       IN  Commit(IF m1.poller.isEnabled THEN StartIntervalPolling(m1) ELSE StopIntervalPolling(m1))

\* activate(): the saved state was 'enabled' and the debug port answered.
IntervalRestore ==
    /\ ~poller.restored /\ ~poller.deactivated
    /\ Commit(StartIntervalPolling([Cur EXCEPT !.poller.isEnabled = TRUE, !.poller.restored = TRUE]))

\* deactivate()
IntervalDeactivate ==
    /\ ~poller.deactivated
    /\ Commit(StopIntervalPolling([Cur EXCEPT !.poller.deactivated = TRUE]))

\* The callback of setInterval, up to its await.
IntervalCallback ==
    /\ poller.pollIntervalId # 0
    /\ IF ~poller.isEnabled \/ poller.isAccepting THEN Commit(Cur)
       ELSE LET b == poller.made + 1
            IN  /\ b <= MaxBatches
                /\ Commit([Cur EXCEPT !.poller.isAccepting = TRUE, !.poller.armed = @ \cup {b},
                                      !.poller.flight = @ \cup {b}, !.poller.made = b])

\* The callback of a batch's 3 s safety timer.
SafetyTimer ==
    \E b \in poller.armed :
        Commit([Cur EXCEPT !.poller.isAccepting = FALSE, !.poller.armed = @ \ {b}])

\* Every command of a batch has settled: the callback from its await to the
\* end of its finally block.
BatchSettled ==
    \E b \in poller.flight :
        Commit([Cur EXCEPT !.poller.flight = @ \ {b}, !.poller.armed = @ \ {b},
                           !.poller.isAccepting = FALSE])

IntervalNext ==
    \/ IntervalToggle
    \/ IntervalRestore
    \/ IntervalDeactivate
    \/ IntervalCallback
    \/ SafetyTimer
    \/ BatchSettled

IntervalSpec == HostInit /\ [][IntervalNext]_vars

\* ------------------------------------------------------------------- claims
OpenSockets == {s \in SocketIds : sock[s].state = "OPEN"}

\* connect() runs that have not returned: suspended in the port search, in the
\* URL fetch, or on the promise of _establishConnection.
AttemptsInProgress ==
    connAwait.findPort + connAwait.getUrl
        + Cardinality({s \in SocketIds : sock[s].promise = "pending"})

\* C1: the browser never holds two attached, not yet detached sessions of this
\* manager for the same target id.
C1_OneLiveSessionPerTarget == \A a, b \in live : a[1] = b[1] => a = b

\* C2: no target id is both in the Session Registry and in the Ignored Set.
C2_RegistryIgnoredDisjoint == (DOMAIN sessions) \cap ignoredTargets = {}

\* C3: every request that is not settled yet can still be settled: it has its
\* entry in pending (for its response) and its armed 5 s timer (for its
\* timeout), so none stays unsettled past its timeout.
C3_EveryRequestSettles ==
    \A id \in DOMAIN waiters : id \in DOMAIN pending /\ id \in timers

\* C4: at most one control-channel WebSocket is open at any time.
C4_OneControlChannel == Cardinality(OpenSockets) <= 1

\* C5: while the manager is running, a state without an open channel leads to
\* a new connect attempt (a port search), to an open channel, or to a stop().
ChannelLost == isRunning /\ ~WsIsOpen(Cur)
C5_SelfHealing ==
    ChannelLost ~> (~isRunning \/ connAwait.findPort > 0 \/ WsIsOpen(Cur))

\* Every armed heartbeat interval is cancelled: the one this.heartbeatTimer
\* refers to and the ones it referred to before it was overwritten.
NoHeartbeatArmed == ~heartbeatTimer /\ hbLeaked = 0

\* The fields _onClose() resets, and the reconnect timer it leaves behind.
CloseHandlerFields ==
    /\ sessions = EmptyMap /\ ignoredTargets = {} /\ pending = EmptyMap
    /\ ws = 0 /\ ~heartbeatTimer
    /\ isRunning <=> reconnectTimer

\* C6: when the close handler of a socket has run, sessions, ignoredTargets and
\* pending are empty, no heartbeat timer is armed, and a reconnect timer is
\* armed exactly if the manager is running.
C6_CloseHandlerResets ==
    [][(SocketError \/ SocketClosed) => (CloseHandlerFields /\ NoHeartbeatArmed)']_vars

\* The fields stop() resets; the socket this.ws referred to was asked to close.
StopFields ==
    /\ ~isRunning' /\ ~reconnectTimer' /\ ~heartbeatTimer' /\ ws' = 0
    /\ sessions' = EmptyMap /\ ignoredTargets' = {} /\ pending' = EmptyMap
    /\ ws # 0 => sock'[ws].state \in {"CLOSING", "CLOSED"}

\* C7: immediately after stop(), from any state: isRunning is false, no
\* reconnect timer and no heartbeat timer is armed, this.ws is null and its
\* socket was asked to close, and sessions, ignoredTargets and pending are empty.
C7_StopResets == [][Stop => (StopFields /\ NoHeartbeatArmed')]_vars

\* C8: at most one connect() is in progress, and it is the one isConnecting
\* stands for; while it is, a further connect() changes nothing (no port probe,
\* no socket), and so does start() while the manager is running.
C8_SingleFlight ==
    /\ AttemptsInProgress <= 1
    /\ isConnecting <=> AttemptsInProgress = 1
    /\ Cardinality({s \in SocketIds : sock[s].state = "CONNECTING"}) <= 1
    /\ isConnecting => ConnectOp(Cur) = Cur
    /\ isRunning => StartOp(Cur) = Cur

\* A reconnect timer is about to call connect() while the connect() that
\* start() began is probing the ports.
C8_ConnectWhileConnecting == isRunning /\ reconnectTimer /\ connAwait.findPort = 1

\* The step in which the 5 s timer of request id fires.
TimeoutStep(id) == id \in timers /\ Commit(RequestTimeout(Cur, id))

\* Request id is rejected and removed from pending.
OwnRequestRejected(id) ==
    id \notin DOMAIN pending' /\ id \notin timers' /\ id \notin DOMAIN waiters'

\* Every other pending entry is kept, with its timer.
OtherRequestsKept(id) ==
    \A j \in (DOMAIN pending) \ {id} :
        /\ j \in DOMAIN pending' /\ pending'[j] = pending[j]
        /\ j \in timers <=> j \in timers'

SocketStatesKept(S) == \A s \in S : sock'[s].state = sock[s].state

\* C9, as stated: when the timeout of a request fires, only that request is
\* rejected and removed from pending; every other pending entry with its timer,
\* the socket, sessions and ignoredTargets are unchanged and no reconnect is
\* scheduled.
C9_TimeoutOnlyItsRequest ==
    [][\A id \in timers : TimeoutStep(id) =>
          /\ OwnRequestRejected(id) /\ OtherRequestsKept(id)
          /\ ws' = ws /\ SocketStatesKept(SocketIds)
          /\ sessions' = sessions /\ ignoredTargets' = ignoredTargets
          /\ reconnectTimer' = reconnectTimer]_vars

\* C9, amended: when the timeout of a request fires, that request is rejected
\* and removed from pending; every other pending entry with its timer, this.ws
\* and sessions are unchanged.  The sockets are left alone and no reconnect is
\* scheduled unless the request is one of the initial discovery
\* (Target.setDiscoverTargets, Target.getTargets): then its socket is asked to
\* close and, if the manager is running, a reconnect is scheduled.
\* ignoredTargets is unchanged unless the request is a Target.detachFromTarget,
\* whose target is then added to it.
C9_TimeoutEffect ==
    [][\A id \in timers : TimeoutStep(id) =>
          LET c == waiters[id]
          IN  /\ OwnRequestRejected(id) /\ OtherRequestsKept(id)
              /\ ws' = ws /\ sessions' = sessions
              /\ IF c.k \in {"init1", "init2"}
                 THEN /\ sock'[c.grp].state = "CLOSING"
                      /\ SocketStatesKept(SocketIds \ {c.grp})
                      /\ reconnectTimer' = (reconnectTimer \/ isRunning)
                 ELSE /\ SocketStatesKept(SocketIds)
                      /\ reconnectTimer' = reconnectTimer
              /\ ignoredTargets' = IF c.k = "detach" THEN ignoredTargets \cup {c.tgt}
                                   ELSE ignoredTargets]_vars

\* A request has timed out on a socket that is still open, while other requests
\* are pending.
C9_TimedOutAmongOthers ==
    \E id \in DOMAIN wire :
        /\ id \notin DOMAIN pending /\ id \notin DOMAIN waiters
        /\ sock[wire[id]].state = "OPEN"
        /\ pending # EmptyMap

\* C10: a pending request is settled by whichever of its response and its
\* timeout comes first, and the other one then does nothing: the entry of id
\* settles the promise of id and holds the timer of id; after the timeout a
\* response with that id changes no state; after the response the timer is
\* cancelled; neither settles another request; and a message whose id is not
\* pending changes no state.
C10_FirstSettlementWins ==
    /\ timers \subseteq DOMAIN pending
    /\ \A id \in DOMAIN pending :
          /\ pending[id].promise = id /\ pending[id].timer = id
          /\ id \in timers /\ id \in DOMAIN waiters
          /\ LET t == RequestTimeout(Cur, id)
             IN  /\ id \notin DOMAIN t.pending /\ id \notin DOMAIN t.waiters
                 /\ (DOMAIN waiters) \ {id} \subseteq DOMAIN t.waiters
                 /\ OnResponse(t, id, Resolved("ok", ws)) = t
          /\ \A v \in Answers(waiters[id].k, id) :
                LET r == OnResponse(Cur, id, Resolved(v, ws))
                IN  /\ id \notin r.timers /\ id \notin DOMAIN r.pending
                    /\ id \notin DOMAIN r.waiters
                    /\ (DOMAIN waiters) \ {id} \subseteq DOMAIN r.waiters
    /\ \A id \in (1..msgId) \ DOMAIN pending :
          OnResponse(Cur, id, Resolved("ok", ws)) = Cur

\* The response to a request that has timed out can still be delivered.
C10_LateResponse ==
    \E id \in DOMAIN wire :
        /\ id \notin DOMAIN pending /\ id \notin DOMAIN waiters
        /\ CanDeliver(wire[id])

\* Request id is a Target.attachToTarget for target t that this step sends.
AttachSent(t) ==
    \E id \in (DOMAIN waiters') \ (DOMAIN waiters) :
        waiters'[id].k = "attach" /\ waiters'[id].tgt = t

\* C11, as stated: once a target is in ignoredTargets, no Target.attachToTarget
\* is sent for it until a targetDestroyed for it has been handled.
C11_NoRetryUntilDestroyed == [][\A t \in barred : ~AttachSent(t)]_vars

\* The steps that run the close handler of a socket, or stop().
ClearingStep == SocketError \/ SocketClosed \/ Stop

\* C11, amended: while a target is in ignoredTargets no Target.attachToTarget is
\* sent for it, and it leaves ignoredTargets only when a targetDestroyed for it
\* is handled or when the close handler of a socket or stop() clears the set.
C11_NoRetryWhileIgnored ==
    [][\A t \in ignoredTargets :
          /\ ~AttachSent(t)
          /\ t \notin ignoredTargets' =>
                \/ t \in barred /\ t \notin barred'
                \/ ClearingStep]_vars

\* A target was ignored, the channel was lost, and a new socket is open on which
\* the browser can announce the target again.
C11_IgnoredThenReconnected ==
    /\ barred # {} /\ ignoredTargets = {}
    /\ WsIsOpen(Cur) /\ sock[ws].disc

C13_InstallOnce ==
    /\ observers <= 1
    /\ last.op = "evaluate" =>
          /\ evals = 1 => last.ret = "observer-installed" /\ last.created
          /\ evals > 1 => /\ last.ret = "already-active"
                          /\ ~last.scanned /\ last.clicked = 0
                          /\ ~last.created /\ ~last.scheduled

\* C13 witness: the script has just been evaluated a second time, in a page
\* where a scan would have clicked a Run button.
C13_SecondEvaluation ==
    /\ last.op = "evaluate" /\ evals = 2
    /\ marker /\ FindButton(dom, clickCooldowns, now, BuiltinTexts[1]) # 0

\* The element a scan of the tree clicks for 'run' when no cooldown is running, 0 for none.
RunTarget(tree) == FindButton(tree, EmptyMap, now, BuiltinTexts[1])

\* C14: a scan clicks only if a panel marker is present when it runs; without
\* a marker it searches no phrase and clicks nothing; an installation that met
\* no marker still installed the one observer; and a scan that runs with a
\* marker clicks the element matching 'run' unless that element is cooling down.
C14_AppliesPerScan ==
    /\ last.scanned /\ last.clicked # 0 => last.panel
    /\ last.scanned /\ ~last.panel => last.searched = <<>> /\ last.clicked = 0
    /\ installScan.done /\ ~installScan.panel =>
          active /\ observers = 1 /\ installScan.clicked = 0
    /\ last.scanned /\ last.panel /\ RunTarget(last.tree) # 0 =>
          \/ last.clicked # 0
          \/ InCooldown(clickCooldowns, now, BtnKey(last.tree, RunTarget(last.tree)), BuiltinTexts[1])

\* C14 witness: the script was installed in a page without a marker, and a
\* later scan, run once a marker was there, has just clicked.
C14_ClickedOnceMarked ==
    /\ installScan.done /\ ~installScan.panel
    /\ last.op = "timer" /\ last.clicked # 0

\* The action phrases of the script in the page, and the elements of a sequence.
ActionTexts == BUTTON_TEXTS(customTexts)
Range(f) == {f[x] : x \in DOMAIN f}

\* C15: in every scan a reveal phrase is searched only after each action
\* phrase, built-in and custom, was searched before it and its search found no
\* element; a scan that clicks for an action phrase searched no reveal phrase.
C15_RevealAfterActions ==
    last.scanned =>
        /\ \A k \in DOMAIN last.searched :
              IsExpandText(last.searched[k]) =>
                  /\ k > Len(ActionTexts)
                  /\ SubSeq(last.searched, 1, Len(ActionTexts)) = ActionTexts
                  /\ \A p \in Range(ActionTexts) :
                        FindButton(last.tree, last.ledger, last.at, p) = 0
        /\ last.clicked # 0 /\ last.phrase \in Range(ActionTexts) =>
              \A k \in DOMAIN last.searched : ~IsExpandText(last.searched[k])

\* C15 witness: a scan has just clicked the Expand button of a tree that also
\* holds a button of an action phrase, whose search found nothing.
C15_RevealClicked ==
    /\ last.scanned /\ last.clicked # 0 /\ IsExpandText(last.phrase)
    /\ \E i \in DOMAIN last.tree : last.tree[i] = [LoadingRunButton EXCEPT !.parent = last.tree[i].parent]

\* The nodes of a tree that pass the text test and the button test of
\* findButton for a phrase, the elements they resolve to (the elements
\* matching the phrase), and the element the first of them resolves to.
TextMatches(tree, p) ==
    {i \in DOMAIN tree :
        /\ Len(NormalizedText(tree, i)) <= 50
        /\ IsMatch(NormalizedText(tree, i), p)
        /\ (ButtonLike(tree[ClosestClickable(tree, i)]) \/ IsExpandText(p))}
MatchingElements(tree, p) == {ClosestClickable(tree, i) : i \in TextMatches(tree, p)}
FirstMatching(tree, p) ==
    IF TextMatches(tree, p) = {} THEN 0
    ELSE ClosestClickable(tree, CHOOSE i \in TextMatches(tree, p) :
                                    \A j \in TextMatches(tree, p) : i <= j)

\* C16, as stated: when an element matching action phrase A and another
\* matching a later action phrase B are in the scanned tree, the scan clicks an
\* element matching A and none that matches only B.
C16_EarlierPhraseWins ==
    last.scanned /\ last.panel =>
        \A ia, ib \in DOMAIN ActionTexts :
            LET ca == MatchingElements(last.tree, ActionTexts[ia])
                cb == MatchingElements(last.tree, ActionTexts[ib])
            IN  ia < ib /\ ca # {} /\ cb \ ca # {} =>
                    last.clicked \in ca /\ last.clicked \notin cb \ ca

\* C16: in a tree without a button that carries an 'allow' test identifier,
\* when the first element matching action phrase A is neither rejected nor
\* cooling down and another element matches a later phrase B, the scan clicks
\* for A or for a phrase before A, clicks that first element of A when no
\* phrase before A yields an element, and clicks no element that matches B but
\* no phrase up to A, whatever the document order of the elements.
C16_FirstEligiblePhraseWins ==
    last.scanned /\ last.panel /\ (\A i \in DOMAIN last.tree : ~AllowShortcut(last.tree[i])) =>
        \A ia, ib \in DOMAIN ActionTexts :
            LET A == ActionTexts[ia]
                a == FirstMatching(last.tree, A)
                upToA == UNION {MatchingElements(last.tree, ActionTexts[k]) : k \in 1..ia}
            IN  /\ ia < ib /\ a # 0
                /\ ~RejectFilter(last.tree, a)
                /\ ~InCooldown(last.ledger, last.at, BtnKey(last.tree, a), A)
                /\ MatchingElements(last.tree, ActionTexts[ib]) \ upToA # {}
                => /\ last.clicked # 0
                   /\ \E k \in 1..ia : last.phrase = ActionTexts[k]
                   /\ (\A k \in 1..(ia - 1) :
                          FindButton(last.tree, last.ledger, last.at, ActionTexts[k]) = 0)
                      => last.clicked = a
                   /\ last.clicked \notin MatchingElements(last.tree, ActionTexts[ib]) \ upToA

\* C16 witness: a scan has just clicked the Run button that stands after an
\* Accept button in the document.
C16_RunAfterAcceptClicked ==
    /\ last.scanned /\ last.clicked = 2 /\ last.phrase = BuiltinTexts[1]
    /\ last.tree = <<AcceptButton, RunButton>>

\* C17: no scan clicks an element whose trimmed, lower-cased text is longer
\* than 50 characters, whatever the phrase and the tree.
C17_NoLongTextClicked ==
    last.scanned /\ last.clicked # 0 => Len(NormalizedText(last.tree, last.clicked)) <= 50

\* C18: no scan clicks an element that is disabled, aria-disabled, of class
\* 'loading' or around a '.codicon-loading' element, whatever its text and
\* attributes.
C18_NoRejectedClicked ==
    last.scanned /\ last.clicked # 0 => ~RejectFilter(last.tree, last.clicked)

\* The nodes of a tree that resolve to the element c.
ResolvingTo(tree, c) == {i \in DOMAIN tree : ClosestClickable(tree, i) = c}

TwinsPending(tree, ledger, time) ==
    {p \in (DOMAIN tree) \X (DOMAIN tree) :
        /\ p[1] # p[2]
        /\ \A k \in {p[1], p[2]} : ButtonLike(tree[k]) /\ ~RejectFilter(tree, k)
        /\ NormalizedText(tree, p[1]) = NormalizedText(tree, p[2])
        /\ NormalizedText(tree, p[1]) = BuiltinTexts[2]
        /\ BtnKey(tree, p[1]) # BtnKey(tree, p[2])
        /\ BtnKey(tree, p[1]) \in DOMAIN ledger
        /\ time - ledger[BtnKey(tree, p[1])] < COOLDOWN_MS
        /\ BtnKey(tree, p[2]) \notin DOMAIN ledger}

\* C20: a timer scan of an agent panel that shows two Accept buttons at
\* different positions, one clicked within the last COOLDOWN_MS and one never
\* clicked, clicks a button that has not been clicked.
C20_TwinClickedDuringCooldown ==
    last.scanned /\ last.op = "timer" /\ last.panel
    /\ TwinsPending(last.tree, last.ledger, last.at) # {} =>
        \E p \in TwinsPending(last.tree, last.ledger, last.at) : last.clicked = p[2]

\* C21: a scan of an agent panel with no click on record that finds nothing for
\* the action phrases and for 'expand', in a tree that holds a button with the
\* text '1 Step Requires Input', clicks an element for 'requires input'.
C21_StepsBannerClicked ==
    /\ last.scanned /\ last.panel /\ last.ledger = EmptyMap
    /\ Len(last.searched) = Len(BuiltinTexts) + Len(EXPAND_TEXTS)
    /\ \E i \in DOMAIN last.tree :
            /\ ButtonLike(last.tree[i])
            /\ NormalizedText(last.tree, i) = <<"1", " ", "s", "t", "e", "p", " ", "r", "e", "q", "u", "i", "r", "e", "s", " ", "i", "n", "p", "u", "t">>
    => last.clicked # 0 /\ last.phrase = EXPAND_TEXTS[2]

\* C22: whenever the session registry is not empty, this.ws is set to an open
\* socket.
C22_SessionsOnlyWhileOpen == sessions # EmptyMap => ws # 0 /\ sock[ws].state = "OPEN"

\* C22: whenever the session registry is not empty, this.ws is set to a socket
\* that is open or closing (a socket whose 'close' event is still to come).
C22_SessionsOnlyWhileSet ==
    sessions # EmptyMap => ws # 0 /\ sock[ws].state \in {"OPEN", "CLOSING"}

\* C22 witness: sessions are registered and the channel's socket is closing.
C22_SessionsWhileClosing == sessions # EmptyMap /\ ws # 0 /\ sock[ws].state = "CLOSING"

\* C23: every session in the registry is one whose page answered an evaluation
\* of the script with 'observer-installed' or 'already-active'.
C23_RegisteredAreInjected == \A t \in DOMAIN sessions : sessions[t] \in injected

\* C24: over a channel on which targets are reported by targetCreated only, a
\* target that was destroyed and has not been reported since is in neither the
\* session registry nor the ignored set.
C24_DestroyedStaysOut == (DOMAIN sessions \cup ignoredTargets) \subseteq announced

\* C25: the step that handles executionContextsCleared sends no request and
\* leaves the session registry and the ignored set as they are, and arms the
\* settle delay for a registered session only; the step that ends the delay
\* sends at most one request, the evaluation of the script in that session;
\* the step that settles this request, with any result or by its timeout,
\* sends no request and leaves the registry and the ignored set as they are.
C25_ReinjectOnly ==
    [][/\ ContextsCleared =>
            /\ sessions' = sessions /\ ignoredTargets' = ignoredTargets
            /\ msgId' = msgId /\ waiters' = waiters
            /\ \A sid \in reinjectTimers' \ reinjectTimers :
                  \E t \in DOMAIN sessions : sessions[t] = sid
       /\ ReinjectFire =>
            /\ sessions' = sessions /\ ignoredTargets' = ignoredTargets
            /\ msgId' <= msgId + 1
            /\ \A id \in (DOMAIN waiters') \ (DOMAIN waiters) :
                  /\ waiters'[id].k = "reinj"
                  /\ waiters'[id].sid \in reinjectTimers \ reinjectTimers'
       /\ \A id \in (DOMAIN waiters) \ (DOMAIN waiters') :
            waiters[id].k = "reinj" =>
                sessions' = sessions /\ ignoredTargets' = ignoredTargets /\ msgId' = msgId
      ]_vars

\* C25 witness: the script is being evaluated again in a registered session.
C25_Reinjecting ==
    \E id \in DOMAIN pending, t \in DOMAIN sessions :
        id \in DOMAIN waiters /\ waiters[id].k = "reinj" /\ waiters[id].sid = sessions[t]

\* C26: a step that runs stop() or the close handler empties this.pending,
\* cancels the timers of the requests it held and settles none of them; from
\* then on the waiter of such a request stays suspended as it is, with no
\* pending entry and no timer, whatever arrives.
C26_DiscardedNeverSettles ==
    [][/\ ClearingStep =>
            /\ pending' = EmptyMap
            /\ \A id \in DOMAIN pending :
                  /\ pending[id].timer \notin timers'
                  /\ id \in DOMAIN waiters => id \in DOMAIN waiters' /\ waiters'[id] = waiters[id]
       /\ \A id \in (DOMAIN waiters) \ (DOMAIN pending) :
            /\ id \in DOMAIN waiters' /\ waiters'[id] = waiters[id]
            /\ id \notin DOMAIN pending' /\ id \notin timers'
      ]_vars

\* C26 witness: after stop(), the closing socket has delivered the response to
\* a discarded request of a _handleNewTarget run, and the run is still suspended.
C26_LateResponseIgnored ==
    \E id \in (DOMAIN waiters) \ (DOMAIN pending) :
        /\ waiters[id].k \in RunKinds
        /\ id \notin DOMAIN wire
        /\ ~isRunning /\ \A s \in SocketIds : sock[s].state # "CLOSED"

\* C27: the step in which a heartbeat's Target.getTargets is answered with a
\* target list leaves in ignoredTargets no target that is absent from the list.
C27_HeartbeatCleansIgnored ==
    [][\A id \in DOMAIN wire, list \in SUBSET Targets :
          (/\ id \in DOMAIN pending /\ id \in DOMAIN waiters /\ waiters[id].k = "hb"
           /\ CanDeliver(wire[id])
           /\ Commit(OnResponse([Cur EXCEPT !.wire = MapDel(@, id)], id, Resolved(list, wire[id]))))
          => ignoredTargets' \subseteq list]_vars

C29_ButtonLikeOrReveal ==
    LET tree == last.tree
        c == last.clicked
        Chain(i) == {i} \cup Ancestors(tree, i)
        Likes(i) == {j \in Chain(i) : ButtonLike(tree[j])}
        Nearest(i) == CHOOSE j \in Likes(i) : \A k \in Likes(i) : k <= j
        Passing == {i \in DOMAIN tree : /\ Len(NormalizedText(tree, i)) <= 50
                                        /\ IsMatch(NormalizedText(tree, i), last.phrase)}
    IN  last.scanned /\ c # 0 =>
            /\ ~IsExpandText(last.phrase) => ButtonLike(tree[c])
            /\ ButtonLike(tree[c]) => \E i \in Passing : Likes(i) # {} /\ Nearest(i) = c
            /\ ~ButtonLike(tree[c]) => IsExpandText(last.phrase) /\ c \in Passing /\ Likes(c) = {}

\* A <div> 'Run' with nothing button-like above it is passed over and the
\* <div> 'Expand' after it, no more button-like, is clicked as it is.
C29_PlainExpandClicked ==
    /\ last.scanned /\ last.clicked = 2 /\ last.phrase = EXPAND_TEXTS[1]
    /\ NormalizedText(last.tree, 1) = BuiltinTexts[1]
    /\ \A i \in DOMAIN last.tree : ~ButtonLike(last.tree[i])

\* C30: in a scan, when no node ahead of the first button (button or btn tag,
\* or role button) whose data-testid or data-action contains 'allow' passes
\* the text test of the first phrase, that button is the element clicked, for
\* the first phrase; and an element with such an attribute that has neither a
\* button tag nor the button role is clicked only through a node whose text
\* passes the test of the phrase.
C30_AllowAttributeReturned ==
    LET tree == last.tree
        Allow(s) == Includes(ToLowerCase(s), <<"a", "l", "l", "o", "w">>)
        Named == {i \in DOMAIN tree : Allow(tree[i].testid) \/ Allow(tree[i].action)}
        Buttons == {i \in Named : ButtonTag(tree[i]) \/ tree[i].role = "button"}
        first == CHOOSE i \in Buttons : \A j \in Buttons : i <= j
        Passing(p) == {i \in DOMAIN tree : /\ Len(NormalizedText(tree, i)) <= 50
                                           /\ IsMatch(NormalizedText(tree, i), p)}
    IN  last.scanned /\ last.searched # <<>> =>
            /\ Buttons # {} /\ (\A i \in Passing(last.searched[1]) : i > first) =>
                  last.clicked = first /\ last.phrase = last.searched[1]
            /\ last.clicked \in Named \ Buttons =>
                  ResolvingTo(tree, last.clicked) \cap Passing(last.phrase) # {}

\* The first node of a set of nodes in traversal order.
FirstOf(nodes) == CHOOSE i \in nodes : \A j \in nodes : i <= j
\* The nodes whose text passes the test of the phrase p.
PassingText(tree, p) ==
    {i \in DOMAIN tree : Len(NormalizedText(tree, i)) <= 50 /\ IsMatch(NormalizedText(tree, i), p)}

C32_NoClickWithinCooldown ==
    last.scanned /\ last.clicked # 0 =>
        LET key == BtnKey(last.tree, last.clicked)
            window == IF IsExpandText(last.phrase) THEN 8000 ELSE 5000
        IN  key \in DOMAIN last.ledger => last.at - last.ledger[key] >= window

\* C33: a scan that clicks does so for the last phrase it searched, the
\* searches of the phrases before it having returned none and the search of
\* that phrase having returned the element clicked; it leaves the ledger as the
\* searches read it but for the clicked element's fingerprint, set to the time
\* of the scan, and returns 'clicked' with the phrase.  A scan that clicks
\* nothing leaves the ledger as the searches read it and returns none.
C33_OneClickPerScan ==
    last.scanned =>
        LET Found(p) == FindButton(last.tree, last.ledger, last.at, p)
            n == Len(last.searched)
        IN  IF last.clicked # 0
            THEN /\ n >= 1 /\ last.phrase = last.searched[n]
                 /\ Found(last.phrase) = last.clicked
                 /\ \A k \in 1..(n - 1) : Found(last.searched[k]) = 0
                 /\ clickCooldowns = MapSet(last.ledger, BtnKey(last.tree, last.clicked), last.at)
                 /\ last.op = "timer" => last.ret = "clicked"
            ELSE /\ clickCooldowns = last.ledger
                 /\ \A k \in 1..n : Found(last.searched[k]) = 0
                 /\ last.op = "timer" => last.ret = "null"

\* A timer scan that clicks for a phrase after the first, other fingerprints
\* being in the ledger.
C33_LaterPhraseClicked ==
    /\ last.scanned /\ last.op = "timer" /\ last.clicked # 0 /\ Len(last.searched) > 1
    /\ last.ledger # EmptyMap

\* C34: a timer scan sweeps the ledger only if 30 s or more have passed since
\* the last sweep (or the installation) and then removes the entries older than
\* 16 s and no other; an entry removed is outside the 5 s and the 8 s window;
\* and every scan clicks the element, for the phrase, that the same scan would
\* click with the ledger that was never swept.
C34_PruningKeepsDecisions ==
    [][last'.scanned /\ last'.op = "timer" =>
          LET due == now - lastPrune >= 30000
              Old(k) == now - clickCooldowns[k] > 16000
              never == ScanAndClick([clickCooldowns |-> unpruned, lastPrune |-> now,
                                     paused |-> paused], dom, marker, customTexts, now)
          IN  /\ lastPrune' = IF due THEN now ELSE lastPrune
              /\ DOMAIN last'.ledger = {k \in DOMAIN clickCooldowns : ~(due /\ Old(k))}
              /\ \A k \in DOMAIN last'.ledger : last'.ledger[k] = clickCooldowns[k]
              /\ \A k \in DOMAIN clickCooldowns \ DOMAIN last'.ledger :
                    now - clickCooldowns[k] >= 8000
              /\ never.clicked = last'.clicked /\ never.phrase = last'.phrase]_vars

\* A sweep has removed an entry and the scan has clicked.
C34_SweptAndClicked ==
    /\ last.scanned /\ last.op = "timer" /\ lastPrune = last.at /\ last.clicked # 0
    /\ DOMAIN unpruned \ DOMAIN last.ledger # {}

\* C35: a notification that arrives while the timer is armed arms nothing and
\* leaves the timer as it is; a timer is armed only by a notification that
\* finds none armed; and a timer scan runs as the step of the one armed timer,
\* which it has disarmed, so that a notification of its own click finds no
\* scan running and arms the next timer.
C35_OneScheduledScan ==
    [][/\ last'.op = "mutation" /\ debounceTimer # 0 =>
              debounceTimer' = debounceTimer /\ ~last'.scheduled
       /\ debounceTimer' # debounceTimer /\ debounceTimer' # 0 =>
              debounceTimer = 0 /\ last'.op = "mutation" /\ last'.scheduled /\ observers = 1
       /\ last'.scanned /\ last'.op = "timer" => debounceTimer # 0 /\ debounceTimer' = 0]_vars

\* A notification has arrived while a scan was scheduled.
C35_Coalesced ==
    /\ observers = 1 /\ debounceTimer # 0
    /\ last.op = "mutation" /\ ~last.scheduled

C38_StaysStopped ==
    [][~isRunning /\ ~isRunning' =>
          /\ \A s \in SocketIds : sock'[s].state = "CONNECTING" => sock[s].state = "CONNECTING"
          /\ heartbeatTimer' => heartbeatTimer
          /\ msgId' = msgId
          /\ sessions' = EmptyMap]_vars

\* C39: while isConnecting is true a connect() is making progress: it awaits
\* the port search or the URL fetch, or the promise of _establishConnection
\* is pending on a socket that has not emitted 'close' yet.
C39_ConnectTerminates ==
    isConnecting =>
        \/ connAwait.findPort + connAwait.getUrl > 0
        \/ \E s \in SocketIds : sock[s].promise = "pending" /\ sock[s].state # "CLOSED"


\* C36: in the recursive-setTimeout poller a pollCycle starts only when no
\* other pollCycle is still executing and no other poll timer is pending,
\* whatever the interleaving of toggles, deactivate and a cycle in flight, and
\* no pollCycle starts after stopPolling() until polling is started again.
C36_CyclesSequential ==
    [][poller'.flight \ poller.flight # {}
         => /\ poller.flight = {}
            /\ poller.armed \ poller'.flight = {}
            /\ ~poller.halted]_vars

\* C37: in the setInterval poller a batch of accept commands is never started
\* while a batch started before it is still in flight, however long a batch
\* takes.
C37_OneBatchInFlight ==
    [][poller'.flight \ poller.flight # {} => poller.flight = {}]_vars
====
